---- MODULE Spec2Model ----
(***************************************************************************)
(* Model of the data collection and reconciliation pipeline of vox-engine: *)
(* the vote reconciler (lib/vote-scraper.ts), the post reconciler, the     *)
(* cache layer and the rate-limited fetch client (lib/twitter.ts).         *)
(*                                                                         *)
(* Strings whose content the code inspects (ids it parses, names it        *)
(* lower-cases, header values) are sequences of one-character strings.     *)
(***************************************************************************)
EXTENDS Integers, Sequences, FiniteSets, TLC

VARIABLES
    voting_sessions,  \* table voting_sessions: rows [id, session_id, title, date, vote_count]
    politicians,      \* table politicians: rows [id, name, party]
    votes,            \* table votes: rows [id, session_id, politician_id, vote]
    last,             \* the last reconciler call: [op, args, ok, ret, path]
    calls,            \* the number of reconciler calls made so far
    run,              \* a batch being applied twice: [batch, pass, i, once]
    now,              \* Date.now(), in milliseconds
    cache,            \* the LRU cache: entries [key, value, start], least recently used first
    staleCache,       \* the stale store: key -> item [data, timestamp]
    lastFetch,        \* the last getCachedOrFetch call: [op, key, fetched, outcome, ok, ret, path]
    lastGood,         \* history: per key, the data of the last fetch that succeeded
    ticks,            \* the number of clock steps taken so far
    rateLimitInfo,    \* [remaining, reset, lastUpdated], shared by all requests
    rl,               \* one rateLimitedFetch call: [pc, retryCount, entered, requests, waits, result]
    tweets,           \* table tweets: rows [id, tweet_id, politician_id, text, created_at]
    lastIngest,       \* the last politician processed: [politicianId, batch, detail]
    ingests,          \* the number of politicians processed so far
    callers,          \* concurrent rateLimitedFetch calls: caller -> [pc, retryCount, ...]
    sent,             \* the number of requests the concurrent callers issued so far
    lastSent,         \* the last request a concurrent caller issued
    handles,          \* column twitter_handle of politicians: politician id -> handle
    lastFix,          \* the last handle fix-up: [op, before, ok, report, path]
    fixes,            \* the number of handle fix-ups run so far
    savers,           \* concurrent saveVotingSession calls: caller -> [pc, sessionId, title, date, ok, ret]
    lookups,          \* concurrent getUserIdFromUsername calls: caller -> [pc, username, key, ...]
    pool              \* the clients checked out of each connection pool: [config, utils]

voteVars == <<voting_sessions, politicians, votes, last, calls, run, savers>>
cacheVars == <<now, cache, staleCache, lastFetch, lastGood, ticks>>
fetchVars == <<rateLimitInfo, rl>>
tweetVars == <<tweets, lastIngest, ingests>>
gateVars == <<callers, sent, lastSent, lookups>>
handleVars == <<handles, lastFix, fixes, pool>>
vars == <<voteVars, cacheVars, fetchVars, tweetVars, gateVars, handleVars>>

-----------------------------------------------------------------------------
(* Strings and conversions *)

Digits == {"0", "1", "2", "3", "4", "5", "6", "7", "8", "9"}

DigitVal(c) ==
    CASE c = "0" -> 0 [] c = "1" -> 1 [] c = "2" -> 2 [] c = "3" -> 3
      [] c = "4" -> 4 [] c = "5" -> 5 [] c = "6" -> 6 [] c = "7" -> 7
      [] c = "8" -> 8 [] c = "9" -> 9

\* The value parseInt gives when the string starts with no digit.
NaN == -1

RECURSIVE ParseDigits(_, _, _)
ParseDigits(s, i, acc) ==
    IF i > Len(s) \/ s[i] \notin Digits
    THEN acc
    ELSE ParseDigits(s, i + 1, acc * 10 + DigitVal(s[i]))

\* parseInt(s, 10): the value of the longest prefix of digits, NaN when it is empty.
ParseInt(s) ==
    IF Len(s) = 0 \/ s[1] \notin Digits THEN NaN ELSE ParseDigits(s, 1, 0)

LowerChar(c) ==
    CASE c = "A" -> "a" [] c = "B" -> "b" [] c = "N" -> "n" [] c = "O" -> "o"
      [] c = "D" -> "d" [] c = "J" -> "j" [] OTHER -> c

\* SQL lower(): every character lower-cased.
Lower(s) == [i \in DOMAIN s |-> LowerChar(s[i])]

-----------------------------------------------------------------------------
(* The relational store *)

Max(S) == CHOOSE x \in S : \A y \in S : y <= x

\* A serial primary key: the next unused id of the table.
NextId(table) == IF table = {} THEN 1 ELSE Max({r.id : r \in table}) + 1

\* The rows a query with LIMIT 1 may return: no row, or any one matching row.
LimitOne(rows) == IF rows = {} THEN {<<>>} ELSE {<<r>> : r \in rows}

DB == [voting_sessions |-> voting_sessions, politicians |-> politicians, votes |-> votes]

\* The outcome of a call: the store it leaves, what the caller gets, and the branch
\* taken (for a call that throws: the statement that raised).
Thrown(db, at) == [db |-> db, ok |-> FALSE, ret |-> 0, path |-> at]
Returned(db, ret, path) == [db |-> db, ok |-> TRUE, ret |-> ret, path |-> path]

-----------------------------------------------------------------------------
(* lib/vote-scraper.ts *)

\* The statements of saveVotingSession and saveVote that a lost connection can fail.
SessionStatements == {"sessionExists", "selectSession", "insertSession"}
VoteStatements ==
    {"selectPolitician", "insertPolitician", "updateParty", "selectVote",
     "updateVote", "insertVote", "updateVoteCount"}

\* sessionExists: a failing query (also: NaN as an integer parameter) is caught and
\* answered with false.
sessionExists(db, sessionId, fail) ==
    IF fail = "sessionExists" \/ sessionId = NaN
    THEN FALSE
    ELSE \E s \in db.voting_sessions : s.id = sessionId

\* INSERT INTO voting_sessions: the primary key rejects a second row with the id.
InsertSessionFails(db, id, fail) ==
    \/ fail = "insertSession"
    \/ id = NaN
    \/ \E s \in db.voting_sessions : s.id = id

saveVotingSession(db, sessionId, title, date, fail) ==
    LET numericSessionId == ParseInt(sessionId)
    IN  IF sessionExists(db, numericSessionId, fail)
        THEN IF fail = "selectSession"
             THEN Thrown(db, "selectSession")
             ELSE Returned(db, numericSessionId, "existing")
        ELSE IF InsertSessionFails(db, numericSessionId, fail)
             THEN Thrown(db, "insertSession")
             ELSE Returned(
                    [db EXCEPT !.voting_sessions = @ \cup
                        {[id |-> numericSessionId, session_id |-> sessionId,
                          title |-> title, date |-> date, vote_count |-> 0]}],
                    numericSessionId, "inserted")

\* SELECT id FROM politicians WHERE lower(name) = lower($1)
SelectPolitician(db, politicianName) ==
    {p \in db.politicians : Lower(p.name) = Lower(politicianName)}

\* SELECT id FROM votes WHERE session_id = $1 AND politician_id = $2
SelectVote(db, sessionId, politicianId) ==
    {v \in db.votes : v.session_id = sessionId /\ v.politician_id = politicianId}

\* INSERT INTO votes: the foreign key to voting_sessions and the unique index on
\* (politician_id, session_id) reject the row.
InsertVoteFails(db, sessionId, politicianId, fail) ==
    \/ fail = "insertVote"
    \/ ~ \E s \in db.voting_sessions : s.id = sessionId
    \/ SelectVote(db, sessionId, politicianId) /= {}

InsertPolitician(db, politicianName, party) ==
    [db EXCEPT !.politicians = @ \cup
        {[id |-> NextId(db.politicians), name |-> politicianName, party |-> party]}]

\* UpdateParty with the slip of leaving out the WHERE clause.
UpdatePartyEverywhere(db, politicianId, party) ==
    [db EXCEPT !.politicians = {[p EXCEPT !.party = party] : p \in @}]

\* UPDATE politicians SET party = $1 WHERE id = $2
UpdateParty(db, politicianId, party) ==
    [db EXCEPT !.politicians =
        {IF p.id = politicianId THEN [p EXCEPT !.party = party] ELSE p : p \in @}]

UpdateVote(db, voteId, vote) ==
    [db EXCEPT !.votes =
        {IF v.id = voteId THEN [v EXCEPT !.vote = vote] ELSE v : v \in @}]

InsertVote(db, sessionId, politicianId, vote) ==
    [db EXCEPT !.votes = @ \cup
        {[id |-> NextId(db.votes), session_id |-> sessionId,
          politician_id |-> politicianId, vote |-> vote]}]

\* UPDATE voting_sessions SET vote_count = vote_count + 1 WHERE id = $1
\* IncrementVoteCount with the slip of counting the vote twice.
IncrementVoteCountTwice(db, sessionId) ==
    [db EXCEPT !.voting_sessions =
        {IF s.id = sessionId THEN [s EXCEPT !.vote_count = @ + 2] ELSE s : s \in @}]

IncrementVoteCount(db, sessionId) ==
    [db EXCEPT !.voting_sessions =
        {IF s.id = sessionId THEN [s EXCEPT !.vote_count = @ + 1] ELSE s : s \in @}]

\* UpsertVote with the slip of counting an overwritten vote as a new one.
UpsertVoteCountingUpdates(db, sessionId, politicianId, vote, fail) ==
    IF fail = "selectVote" THEN Thrown(db, "selectVote")
    ELSE LET existingVote == SelectVote(db, sessionId, politicianId)
         IN  IF existingVote /= {}
             THEN Returned(IncrementVoteCount(
                             UpdateVote(db, (CHOOSE v \in existingVote : TRUE).id, vote),
                             sessionId), 1, "updated")
             ELSE IF InsertVoteFails(db, sessionId, politicianId, fail)
                  THEN Thrown(db, "insertVote")
                  ELSE Returned(IncrementVoteCount(
                                  InsertVote(db, sessionId, politicianId, vote), sessionId),
                                1, "inserted")

\* The second half of saveVote: the vote upsert, each statement committed on its own.
UpsertVote(db, sessionId, politicianId, vote, fail) ==
    IF fail = "selectVote" THEN Thrown(db, "selectVote")
    ELSE LET existingVote == SelectVote(db, sessionId, politicianId)
         IN  IF existingVote /= {}
             THEN IF fail = "updateVote"
                  THEN Thrown(db, "updateVote")
                  ELSE Returned(UpdateVote(db, (CHOOSE v \in existingVote : TRUE).id, vote),
                                1, "updated")
             ELSE IF InsertVoteFails(db, sessionId, politicianId, fail)
                  THEN Thrown(db, "insertVote")
                  ELSE LET inserted == InsertVote(db, sessionId, politicianId, vote)
                       IN  IF fail = "updateVoteCount"
                           THEN Thrown(inserted, "updateVoteCount")
                           ELSE Returned(IncrementVoteCount(inserted, sessionId),
                                         1, "inserted")

\* saveVote; politician is the result of its first query (no row, or one row).
saveVote(db, sessionId, politicianName, party, vote, fail, politician) ==
    IF fail = "selectPolitician" THEN Thrown(db, "selectPolitician")
    ELSE IF Len(politician) = 0
         THEN IF fail = "insertPolitician"
              THEN Thrown(db, "insertPolitician")
              ELSE UpsertVote(InsertPolitician(db, politicianName, party), sessionId,
                              NextId(db.politicians), vote, fail)
         ELSE IF fail = "updateParty"
              THEN Thrown(db, "updateParty")
              ELSE UpsertVote(UpdateParty(db, politician[1].id, party), sessionId,
                              politician[1].id, vote, fail)

-----------------------------------------------------------------------------
(* lib/twitter.ts: the cache layer *)

CACHE_TTL == 600000

\* The capacity of the LRU cache (max: 500 in the code), scaled to the keys modelled.
CacheMax == 2

Keys == {"recent_tweets_10", "tweet_stats", "politicians_with_twitter"}
Values == {"v1", "v2"}
Errors == {"e1"}

\* What the awaited fetchFn does: it resolves with data, or it rejects with an error.
FetchOutcomes ==
    {[ok |-> TRUE, data |-> v, error |-> "none"] : v \in Values}
        \cup {[ok |-> FALSE, data |-> "none", error |-> e] : e \in Errors}

NotFetched == [ok |-> TRUE, data |-> "none", error |-> "none"]

\* Date.now() when the module is loaded.
Epoch == 1000 * 1000

NoItem == [data |-> "none", timestamp |-> 0]

Remove(c, i) == SubSeq(c, 1, i - 1) \o SubSeq(c, i + 1, Len(c))

Put(f, k, v) == [x \in DOMAIN f \cup {k} |-> IF x = k THEN v ELSE f[x]]

CacheIndex(c, key) == {i \in 1..Len(c) : c[i].key = key}

\* IsStale with the slip of entries that never expire.
IsStaleNever(entry, t) == FALSE

\* lru-cache: an entry is stale once its age exceeds the ttl.
IsStale(entry, t) == t - entry.start > CACHE_TTL

\* cache.get(key): a stale entry is dropped and answered as a miss; a hit becomes the
\* most recently used entry and keeps its age (updateAgeOnGet is off).
CacheGet(c, key, t) ==
    IF CacheIndex(c, key) = {}
    THEN [cache |-> c, hit |-> FALSE, value |-> NoItem]
    ELSE LET i == CHOOSE j \in CacheIndex(c, key) : TRUE
         IN  IF IsStale(c[i], t)
             THEN [cache |-> Remove(c, i), hit |-> FALSE, value |-> NoItem]
             ELSE [cache |-> Append(Remove(c, i), c[i]), hit |-> TRUE,
                   value |-> c[i].value]

\* cache.set(key, value): the entry becomes the most recently used one with a fresh
\* age; a new key in a full cache evicts the least recently used entry.
CacheSet(c, key, value, t) ==
    LET entry == [key |-> key, value |-> value, start |-> t]
    IN  IF CacheIndex(c, key) /= {}
        THEN Append(Remove(c, CHOOSE j \in CacheIndex(c, key) : TRUE), entry)
        ELSE IF Len(c) >= CacheMax
             THEN Append(Tail(c), entry)
             ELSE Append(c, entry)

\* cache.delete(key)
CacheDelete(c, key) ==
    IF CacheIndex(c, key) = {} THEN c
    ELSE Remove(c, CHOOSE j \in CacheIndex(c, key) : TRUE)

\* getCachedOrFetch with the slip of never consulting the stale store.
getCachedOrFetchNoFallback(c, stale, key, outcome, t) ==
    LET cachedValue == CacheGet(c, key, t)
    IN  IF cachedValue.hit
        THEN [cache |-> cachedValue.cache,
              staleCache |-> Put(stale, key, cachedValue.value),
              fetched |-> FALSE, ok |-> TRUE, ret |-> cachedValue.value.data,
              path |-> "cached"]
        ELSE IF outcome.ok
             THEN LET cacheItem == [data |-> outcome.data, timestamp |-> t]
                  IN  [cache |-> CacheSet(cachedValue.cache, key, cacheItem, t),
                       staleCache |-> Put(stale, key, cacheItem),
                       fetched |-> TRUE, ok |-> TRUE, ret |-> outcome.data,
                       path |-> "fresh"]
             ELSE [cache |-> cachedValue.cache, staleCache |-> stale,
                   fetched |-> TRUE, ok |-> FALSE, ret |-> outcome.error,
                   path |-> "throw"]

\* getCachedOrFetch with the slip of copying a value to the stale store only when it
\* is served from the cache.
getCachedOrFetchStaleOnHit(c, stale, key, outcome, t) ==
    LET cachedValue == CacheGet(c, key, t)
    IN  IF cachedValue.hit
        THEN [cache |-> cachedValue.cache,
              staleCache |-> Put(stale, key, cachedValue.value),
              fetched |-> FALSE, ok |-> TRUE, ret |-> cachedValue.value.data,
              path |-> "cached"]
        ELSE IF outcome.ok
             THEN LET cacheItem == [data |-> outcome.data, timestamp |-> t]
                  IN  [cache |-> CacheSet(cachedValue.cache, key, cacheItem, t),
                       staleCache |-> stale,
                       fetched |-> TRUE, ok |-> TRUE, ret |-> outcome.data,
                       path |-> "fresh"]
             ELSE IF key \in DOMAIN stale
                  THEN [cache |-> cachedValue.cache, staleCache |-> stale,
                        fetched |-> TRUE, ok |-> TRUE, ret |-> stale[key].data,
                        path |-> "stale"]
                  ELSE [cache |-> cachedValue.cache, staleCache |-> stale,
                        fetched |-> TRUE, ok |-> FALSE, ret |-> outcome.error,
                        path |-> "throw"]

\* getCachedOrFetch(key, fetchFn) at time t, with the outcome fetchFn has if invoked.
getCachedOrFetch(c, stale, key, outcome, t) ==
    LET cachedValue == CacheGet(c, key, t)
    IN  IF cachedValue.hit
        THEN [cache |-> cachedValue.cache,
              staleCache |-> Put(stale, key, cachedValue.value),
              fetched |-> FALSE, ok |-> TRUE, ret |-> cachedValue.value.data,
              path |-> "cached"]
        ELSE IF outcome.ok
             THEN LET cacheItem == [data |-> outcome.data, timestamp |-> t]
                  IN  [cache |-> CacheSet(cachedValue.cache, key, cacheItem, t),
                       staleCache |-> Put(stale, key, cacheItem),
                       fetched |-> TRUE, ok |-> TRUE, ret |-> outcome.data,
                       path |-> "fresh"]
             ELSE IF key \in DOMAIN stale
                  THEN [cache |-> cachedValue.cache, staleCache |-> stale,
                        fetched |-> TRUE, ok |-> TRUE, ret |-> stale[key].data,
                        path |-> "stale"]
                  ELSE [cache |-> cachedValue.cache, staleCache |-> stale,
                        fetched |-> TRUE, ok |-> FALSE, ret |-> outcome.error,
                        path |-> "throw"]

-----------------------------------------------------------------------------
(* lib/twitter.ts: the rate-limited fetch client *)

MAX_RETRIES == 3
INITIAL_RETRY_DELAY == 5000

\* The margin added to the wait for the quota to reset.
RESET_BUFFER == 1000

\* A header the response does not carry reads as null; null and "" are falsy.
Truthy(header) == Len(header) > 0

\* n * 1000 in JavaScript numbers.
Times1000(n) == IF n = NaN THEN NaN ELSE n * 1000

RECURSIVE Pow2(_)
Pow2(n) == IF n = 0 THEN 1 ELSE 2 * Pow2(n - 1)

\* setTimeout(resolve, ms): a delay that is no number, or is below 1, runs as 1.
TimerDelay(ms) == IF ms = NaN \/ ms < 1 THEN 1 ELSE ms

\* QuotaExhausted with the slip of never holding a request back.
QuotaNeverExhausted(info, t) == FALSE

\* The check "remaining <= 0 && now < reset"; a comparison with NaN is false.
QuotaExhausted(info, t) ==
    /\ info.remaining /= NaN /\ info.remaining <= 0
    /\ info.reset /= NaN /\ t < info.reset

\* UpdateRateLimit with the slip of keeping the reset time in seconds.
UpdateRateLimitInSeconds(info, response, entered) ==
    [remaining |-> IF Truthy(response.remaining)
                   THEN ParseInt(response.remaining) ELSE info.remaining,
     reset |-> IF Truthy(response.reset) THEN ParseInt(response.reset) ELSE info.reset,
     lastUpdated |-> entered]

\* The bookkeeping after a response; entered is the time read on entry.
UpdateRateLimit(info, response, entered) ==
    [remaining |-> IF Truthy(response.remaining)
                   THEN ParseInt(response.remaining) ELSE info.remaining,
     reset |-> IF Truthy(response.reset)
               THEN Times1000(ParseInt(response.reset)) ELSE info.reset,
     lastUpdated |-> entered]

\* BackoffDelay with the slip of a delay that grows linearly.
BackoffDelayLinear(retryAfter, retryCount) ==
    IF Truthy(retryAfter)
    THEN Times1000(ParseInt(retryAfter))
    ELSE INITIAL_RETRY_DELAY * (retryCount + 1)

\* The delay before the retry of a request answered with 429.
BackoffDelay(retryAfter, retryCount) ==
    IF Truthy(retryAfter)
    THEN Times1000(ParseInt(retryAfter))
    ELSE INITIAL_RETRY_DELAY * Pow2(retryCount)

\* RetriesExhausted with the slip of giving up one retry early.
RetriesExhaustedEarly(retryCount) == retryCount >= MAX_RETRIES - 1

RetriesExhausted(retryCount) == retryCount >= MAX_RETRIES

Statuses == {200, 404, 429}
RemainingHeaders == {<<>>, <<"0">>, <<"5">>}
ResetHeaders == {<<>>, <<"1", "0", "6", "0">>}
RetryAfterHeaders == {<<>>, <<"7">>}

Responses ==
    [status : Statuses, remaining : RemainingHeaders, reset : ResetHeaders,
     retryAfter : RetryAfterHeaders]

NoResult == [kind |-> "none", status |-> 0, n |-> 0]

IdleCall ==
    [pc |-> "idle", retryCount |-> 0, entered |-> 0, requests |-> <<>>, waits |-> <<>>,
     result |-> NoResult]

-----------------------------------------------------------------------------
(* lib/twitter.ts: the post reconciler *)

\* The steps of saveTweetsToDatabase that can raise.
TweetStatements == {"getClient", "begin", "selectTweets", "insertTweets", "commit"}

\* SELECT tweet_id FROM tweets WHERE politician_id = $1, as a Set.
ExistingTweetIds(table, politicianId) ==
    {r.tweet_id : r \in {x \in table : x.politician_id = politicianId}}

\* The posts of the batch not stored under the politician, in batch order; a post
\* that occurs twice in the batch is kept twice.
NewValues(tweetData, existingTweetIds) ==
    SelectSeq(tweetData, LAMBDA tweet : tweet.id \notin existingTweetIds)

\* The multi-row INSERT violates the unique index on the external id when a value
\* is stored already (under any politician) or occurs twice among the values.
InsertTweetsFails(table, values, fail) ==
    \/ fail = "insertTweets"
    \/ \E i \in DOMAIN values : \E r \in table : r.tweet_id = values[i].id
    \/ \E i, j \in DOMAIN values : i /= j /\ values[i].id = values[j].id

InsertTweets(table, values, politicianId) ==
    table \cup {[id |-> NextId(table) + i - 1, tweet_id |-> values[i].id,
                 politician_id |-> politicianId, text |-> values[i].text,
                 created_at |-> values[i].created_at] : i \in DOMAIN values}

SavedTweets(table, c, ret) == [tweets |-> table, cache |-> c, ok |-> TRUE, ret |-> ret,
                               path |-> "saved"]

\* TweetsThrown with the slip of clearing the caches before the error is rethrown.
TweetsThrownInvalidating(table, c, at) ==
    [tweets |-> table, cache |-> CacheDelete(CacheDelete(c, "recent_tweets_10"), "tweet_stats"),
     ok |-> FALSE, ret |-> 0, path |-> at]

\* The error is rethrown after ROLLBACK: the table and the cache are as before.
TweetsThrown(table, c, at) == [tweets |-> table, cache |-> c, ok |-> FALSE, ret |-> 0,
                               path |-> at]

\* saveTweetsToDatabase with the slip of reporting the whole batch as saved.
saveTweetsToDatabaseCountingBatch(table, c, tweetData, politicianId, fail) ==
    IF Len(tweetData) = 0 THEN [tweets |-> table, cache |-> c, ok |-> TRUE, ret |-> 0,
                                path |-> "empty"]
    ELSE IF fail \in {"getClient", "begin", "selectTweets"} THEN TweetsThrown(table, c, fail)
    ELSE LET values == NewValues(tweetData, ExistingTweetIds(table, politicianId))
         IN  IF Len(values) > 0 /\ InsertTweetsFails(table, values, fail)
             THEN TweetsThrown(table, c, "insertTweets")
             ELSE IF fail = "commit" THEN TweetsThrown(table, c, fail)
             ELSE SavedTweets(InsertTweets(table, values, politicianId),
                              CacheDelete(CacheDelete(c, "recent_tweets_10"), "tweet_stats"),
                              Len(tweetData))

saveTweetsToDatabase(table, c, tweetData, politicianId, fail) ==
    IF Len(tweetData) = 0 THEN [tweets |-> table, cache |-> c, ok |-> TRUE, ret |-> 0,
                                path |-> "empty"]
    ELSE IF fail \in {"getClient", "begin", "selectTweets"} THEN TweetsThrown(table, c, fail)
    ELSE LET values == NewValues(tweetData, ExistingTweetIds(table, politicianId))
         IN  IF Len(values) > 0 /\ InsertTweetsFails(table, values, fail)
             THEN TweetsThrown(table, c, "insertTweets")
             ELSE IF fail = "commit" THEN TweetsThrown(table, c, fail)
             ELSE SavedTweets(InsertTweets(table, values, politicianId),
                              CacheDelete(CacheDelete(c, "recent_tweets_10"), "tweet_stats"),
                              Len(values))

\* The entry of the report for one politician (lib/twitter-scraper.ts): the counts
\* of a politician whose posts were fetched and saved, or zero counts and the error.
ReportDetail(politicianId, tweetData, saved) ==
    IF saved.ok
    THEN [politicianId |-> politicianId, newTweets |-> saved.ret,
          skippedTweets |-> Len(tweetData) - saved.ret, totalTweets |-> Len(tweetData),
          error |-> "none"]
    ELSE [politicianId |-> politicianId, newTweets |-> 0, skippedTweets |-> 0,
          totalTweets |-> 0, error |-> saved.path]

-----------------------------------------------------------------------------
(* Handle clean-up: the string operations of checkAndFixTwitterHandles *)

TWITTER_COM == <<"t", "w", "i", "t", "t", "e", "r", ".", "c", "o", "m", "/">>
X_COM == <<"x", ".", "c", "o", "m", "/">>
SLASH == <<"/">>
QUESTION_MARK == <<"?">>
AT_SIGN == <<"@">>

\* pat occurs in s from position i on.
OccursAt(s, pat, i) ==
    /\ i + Len(pat) - 1 <= Len(s)
    /\ \A k \in 1..Len(pat) : s[i + k - 1] = pat[k]

Occurrences(s, pat) == {i \in 1..Len(s) : OccursAt(s, pat, i)}

\* s.includes(pat)
Includes(s, pat) == Occurrences(s, pat) /= {}

\* s.startsWith(pat)
StartsWith(s, pat) == OccursAt(s, pat, 1)

\* s.split(pat).pop(): what follows the last occurrence of pat.
SplitPop(s, pat) ==
    IF ~Includes(s, pat) THEN s
    ELSE SubSeq(s, Max(Occurrences(s, pat)) + Len(pat), Len(s))

\* s.split(pat)[0]: what precedes the first occurrence of pat.
SplitFirst(s, pat) ==
    IF ~Includes(s, pat) THEN s
    ELSE SubSeq(s, 1, (CHOOSE i \in Occurrences(s, pat) :
                          \A j \in Occurrences(s, pat) : i <= j) - 1)

RECURSIVE TrimStart(_)
TrimStart(s) == IF s /= <<>> /\ Head(s) = " " THEN TrimStart(Tail(s)) ELSE s

RECURSIVE TrimEnd(_)
TrimEnd(s) ==
    IF s /= <<>> /\ s[Len(s)] = " " THEN TrimEnd(SubSeq(s, 1, Len(s) - 1)) ELSE s

\* s.trim()
Trim(s) == TrimEnd(TrimStart(s))

\* The handles found stored.
HandleUrlWithPath == <<"h", "t", "t", "p", "s", ":", "/", "/", "x", ".", "c", "o", "m", "/", "J", "o", "h", "n", "D", "o", "e", "/", "s", "t", "a", "t", "u", "s", "/", "1", "2", "3", "?", "x", "=", "1">>
HandlePlain == <<"j", "a", "n", "e", "d", "o", "e">>
HandleAt == <<"@", "J", "o", "h", "n", "D", "o", "e">>
HandleSpaceAt == <<" ", "@", "J", "o", "h", "n", "D", "o", "e">>
HandleTwitterUrl == <<"h", "t", "t", "p", "s", ":", "/", "/", "t", "w", "i", "t", "t", "e", "r", ".", "c", "o", "m", "/", "J", "o", "h", "n", "D", "o", "e", "/">>
HandlePadded == <<" ", "j", "a", "n", "e", "d", "o", "e", " ">>
HandleOnlyAt == <<"@">>
HandleQuery == <<"J", "o", "h", "n", "D", "o", "e", "?", "l", "a", "n", "g", "=", "e", "n">>
HandleClean == <<"J", "o", "h", "n", "D", "o", "e">>
HandleBareUrl == <<"h", "t", "t", "p", "s", ":", "/", "/", "x", ".", "c", "o", "m", "/">>

StoredHandles ==
    {HandleUrlWithPath,
     HandlePlain,
     HandleAt,
     HandleSpaceAt,
     HandleTwitterUrl,
     HandlePadded,
     HandleOnlyAt,
     HandleQuery,
     HandleClean,
     HandleBareUrl}


\* SQL NULL in the handle column.
NullHandle == <<"NULL">>

\* The steps of the loop body of checkAndFixTwitterHandles, each on the handle as
\* the steps before it left it.
StripTwitterCom(h) == IF Includes(h, TWITTER_COM) THEN SplitPop(h, TWITTER_COM) ELSE h
StripXCom(h) == IF Includes(h, X_COM) THEN SplitPop(h, X_COM) ELSE h
HasPath(h) == Includes(h, SLASH) \/ Includes(h, QUESTION_MARK)
CutPath(h) == IF HasPath(h) THEN SplitFirst(SplitFirst(h, SLASH), QUESTION_MARK) ELSE h
StripAt(h) == IF StartsWith(h, AT_SIGN) THEN SubSeq(h, 2, Len(h)) ELSE h

AfterUrl(h) == StripXCom(StripTwitterCom(h))
AfterPath(h) == CutPath(AfterUrl(h))
AfterAt(h) == StripAt(AfterPath(h))

\* Whether a step before the trim set the flag.
FlaggedBeforeTrim(h) ==
    \/ Includes(h, TWITTER_COM)
    \/ Includes(StripTwitterCom(h), X_COM)
    \/ HasPath(AfterUrl(h))
    \/ StartsWith(AfterPath(h), AT_SIGN)

\* The loop body of checkAndFixTwitterHandles in lib/twitter.ts: the cleaned handle
\* and whether a step applied; the trim is a step.
FixHandle(h) ==
    [twitterHandle |-> Trim(AfterAt(h)),
     fixed |-> FlaggedBeforeTrim(h) \/ AfterAt(h) /= Trim(AfterAt(h))]

\* The loop body of checkAndFixTwitterHandles in lib/twitter-scraper.ts: the trim
\* is applied without setting the flag.
FixHandleScraper(h) ==
    [twitterHandle |-> Trim(AfterAt(h)), fixed |-> FlaggedBeforeTrim(h)]

\* The handles a politician can have: those found stored and what the clean-up
\* makes of them.
HandleValues ==
    LET once == StoredHandles \cup {FixHandle(h).twitterHandle : h \in StoredHandles}
    IN  once \cup {FixHandle(h).twitterHandle : h \in once}

\* The loop bodies, computed once per handle.
FixTable == [h \in HandleValues |-> FixHandle(h)]
FixTableScraper == [h \in HandleValues |-> FixHandleScraper(h)]

\* The steps of checkAndFixTwitterHandles (lib/twitter.ts) that can raise.
FixStatements == {"getClient", "begin", "selectHandles", "updateHandles", "commit"}

\* SELECT id, name, twitter_handle FROM politicians WHERE twitter_handle IS NOT NULL
WithHandle(hs) == {id \in DOMAIN hs : hs[id] /= NullHandle}

\* The rows queued for the batch update: a step applied and the result is not empty.
Updates(hs) ==
    {id \in WithHandle(hs) : FixTable[hs[id]].fixed /\ FixTable[hs[id]].twitterHandle /= <<>>}

FixDetails(hs) ==
    [id \in WithHandle(hs) |->
        [original |-> hs[id],
         fixed |-> IF FixTable[hs[id]].fixed THEN FixTable[hs[id]].twitterHandle
                   ELSE NullHandle,
         status |-> IF FixTable[hs[id]].fixed THEN "fixed" ELSE "ok"]]

NoReport == [total |-> 0, fixed |-> 0, details |-> <<>>]

\* checkAndFixTwitterHandles of lib/twitter.ts: one transaction, one batch update;
\* a failing step is rolled back and rethrown.
checkAndFixTwitterHandles(hs, c, fail) ==
    IF fail \in {"getClient", "begin", "selectHandles"}
       \/ (fail = "updateHandles" /\ Updates(hs) /= {})
       \/ fail = "commit"
    THEN [handles |-> hs, cache |-> c, ok |-> FALSE, report |-> NoReport,
          path |-> fail]
    ELSE [handles |-> [id \in DOMAIN hs |->
                          IF id \in Updates(hs) THEN FixTable[hs[id]].twitterHandle
                          ELSE hs[id]],
          cache |-> CacheDelete(c, "politicians_with_twitter"), ok |-> TRUE,
          report |-> [total |-> Cardinality(WithHandle(hs)),
                      fixed |-> Cardinality(Updates(hs)),
                      details |-> FixDetails(hs)],
          path |-> "committed"]

\* fetchPoliticiansWithTwitter of lib/twitter-scraper.ts: handle not NULL, not ''.
WithHandleScraper(hs) == {id \in DOMAIN hs : hs[id] /= NullHandle /\ hs[id] /= <<>>}

\* The rows lib/twitter-scraper.ts rewrites: a flagged step applied and the result
\* differs from the stored handle.
ChangedScraper(hs) ==
    {id \in WithHandleScraper(hs) :
        FixTableScraper[hs[id]].fixed /\ FixTableScraper[hs[id]].twitterHandle /= hs[id]}

\* checkAndFixTwitterHandles of lib/twitter-scraper.ts: the rows are rewritten one
\* by one in the order they were read, each in a statement of its own; failAt is
\* the position of the row whose update raises (0: the select, none beyond the
\* rows read).
checkAndFixTwitterHandlesScraper(hs, order, failAt) ==
    LET read == SelectSeq(order, LAMBDA id : id \in WithHandleScraper(hs))
        raises == failAt \in DOMAIN read /\ read[failAt] \in ChangedScraper(hs)
        done == IF raises THEN {read[i] : i \in 1..(failAt - 1)}
                ELSE {read[i] : i \in DOMAIN read}
        written == [id \in DOMAIN hs |->
                       IF id \in done \cap ChangedScraper(hs)
                       THEN FixTableScraper[hs[id]].twitterHandle ELSE hs[id]]
    IN  IF failAt = 0
        THEN [handles |-> hs, ok |-> FALSE, report |-> NoReport, path |-> "selectHandles"]
        ELSE IF raises
        THEN [handles |-> written, ok |-> FALSE, report |-> NoReport,
              path |-> "updateHandle"]
        ELSE [handles |-> written, ok |-> TRUE,
              report |-> [total |-> Len(read),
                          fixed |-> Cardinality(ChangedScraper(hs)),
                          details |-> [id \in ChangedScraper(hs) |->
                                          [original |-> hs[id],
                                           fixed |-> FixTableScraper[hs[id]].twitterHandle,
                                           status |-> "fixed"]]],
              path |-> "returned"]

-----------------------------------------------------------------------------
(* Inputs *)

SessionIdStrings == {<<"1">>, <<"0", "1">>, <<"2">>, <<"x">>}
SessionData == {<<"T1", "D1">>, <<"T2", "D2">>}
SessionNumbers == {1, 2}
Names == {<<"A", "n">>, <<"a", "N">>, <<"B", "o">>}
Parties == {"ODS", "ANO"}
VoteValues == {"A", "N"}

\* The number of reconciler calls a behaviour makes.
MaxCalls == 3

-----------------------------------------------------------------------------
(* The reconciler, one call at a time *)

NoRun == [batch |-> <<>>, pass |-> 0, i |-> 1, once |-> {}]
NoCall == [op |-> "none", args |-> <<>>, ok |-> TRUE, ret |-> 0, path |-> "none"]

NoFetch ==
    [op |-> "none", key |-> "none", fetched |-> FALSE, outcome |-> NotFetched,
     ok |-> TRUE, ret |-> "none", path |-> "none"]

\* The store is empty and no call was made.
VotesStart ==
    /\ voting_sessions = {}
    /\ politicians = {}
    /\ votes = {}
    /\ last = NoCall
    /\ calls = 0

\* The module was just loaded: both caches are empty.
CacheStart ==
    /\ now = Epoch
    /\ cache = <<>>
    /\ staleCache = <<>>
    /\ lastFetch = NoFetch
    /\ lastGood = [k \in Keys |-> "never"]
    /\ ticks = 0

NoIngest ==
    [politicianId |-> 0, batch |-> <<>>,
     detail |-> [politicianId |-> 0, newTweets |-> 0, skippedTweets |-> 0,
                 totalTweets |-> 0, error |-> "none"]]

TweetsStart ==
    /\ tweets = {}
    /\ lastIngest = NoIngest
    /\ ingests = 0

\* No client of either pool is checked out.
NoneCheckedOut == [config |-> 0, utils |-> 0]

NoFix == [op |-> "none", before |-> <<>>, ok |-> TRUE, report |-> NoReport,
          path |-> "none"]

\* No politician has a handle; no fix-up was run.
HandlesStart ==
    /\ handles = [id \in {1, 2} |-> NullHandle]
    /\ lastFix = NoFix
    /\ fixes = 0
    /\ pool = NoneCheckedOut

Callers == {1, 2}

IdleCaller ==
    [pc |-> "idle", retryCount |-> 0, entered |-> 0, wake |-> 0,
     exhaustedAtEntry |-> FALSE, infoAtEntry |-> [remaining |-> 0, reset |-> 0]]

NothingSent ==
    [caller |-> 0, at |-> 0, entered |-> 0, exhaustedAtEntry |-> FALSE,
     resetAtEntry |-> 0, exhausted |-> FALSE, updatedSinceEntry |-> FALSE]

\* A caller that is not in saveVotingSession.
IdleSaver ==
    [pc |-> "idle", sessionId |-> <<>>, title |-> "", date |-> "", ok |-> TRUE, ret |-> 0]

\* A caller that is not in getUserIdFromUsername.
IdleLookup ==
    [pc |-> "idle", username |-> <<>>, key |-> <<>>, at |-> 0, requests |-> 0,
     ok |-> TRUE, ret |-> <<>>, path |-> "none", response |-> <<>>]

CallersStart ==
    /\ callers = [c \in Callers |-> IdleCaller]
    /\ lookups = [c \in Callers |-> IdleLookup]
    /\ savers = [c \in Callers |-> IdleSaver]
    /\ sent = 0
    /\ lastSent = NothingSent

\* The module was just loaded: the quota is assumed, no request was made.
FetchStart ==
    /\ rateLimitInfo = [remaining |-> 300, reset |-> Epoch + 15 * 60 * 1000,
                        lastUpdated |-> Epoch]
    /\ rl = IdleCall

Init ==
    /\ VotesStart
    /\ run = NoRun
    /\ CacheStart
    /\ FetchStart
    /\ TweetsStart
    /\ CallersStart
    /\ HandlesStart

Commit(r, op, args, fail) ==
    /\ calls < MaxCalls
    /\ calls' = calls + 1
    /\ voting_sessions' = r.db.voting_sessions
    /\ politicians' = r.db.politicians
    /\ votes' = r.db.votes
    /\ last' = [op |-> op, args |-> IF r.ok THEN args ELSE <<>>, ok |-> r.ok,
                ret |-> r.ret, path |-> r.path]
    /\ UNCHANGED <<run, savers, cacheVars, fetchVars, tweetVars, gateVars, handleVars>>

SaveVotingSession(sessionId, title, date, fail) ==
    Commit(saveVotingSession(DB, sessionId, title, date, fail),
           "saveVotingSession", <<sessionId, title, date>>, fail)

SaveVote(sessionId, politicianName, party, vote, fail) ==
    \E politician \in LimitOne(SelectPolitician(DB, politicianName)) :
        Commit(saveVote(DB, sessionId, politicianName, party, vote, fail, politician),
               "saveVote", <<sessionId, politicianName, party, vote>>, fail)

Next ==
    \/ \E sessionId \in SessionIdStrings, data \in SessionData,
          fail \in SessionStatements \cup {"none"} :
            SaveVotingSession(sessionId, data[1], data[2], fail)
    \/ \E sessionId \in SessionNumbers, politicianName \in Names, party \in Parties,
          vote \in VoteValues, fail \in VoteStatements \cup {"none"} :
            SaveVote(sessionId, politicianName, party, vote, fail)

Spec == Init /\ [][Next]_vars

\* The store as earlier runs left it: one session and one politician.
StoredPoliticians == {[id |-> 1, name |-> <<"A", "n">>, party |-> "ODS"]}

InitStored ==
    /\ voting_sessions = {[id |-> 1, session_id |-> <<"1">>, title |-> "T1",
                           date |-> "D1", vote_count |-> 0]}
    /\ politicians = StoredPoliticians
    /\ votes = {}
    /\ last = NoCall
    /\ calls = 0
    /\ run = NoRun
    /\ CacheStart
    /\ FetchStart
    /\ TweetsStart
    /\ CallersStart
    /\ HandlesStart

SpecStored == InitStored /\ [][Next]_vars

-----------------------------------------------------------------------------
(* Concurrent calls of saveVotingSession: a call gives way at each await *)

otherThanSessions ==
    <<politicians, votes, last, run, cacheVars, fetchVars, tweetVars, gateVars, handleVars>>

\* A caller calls saveVotingSession and awaits sessionExists.
SaverEnters(c, sessionId, title, date) ==
    /\ savers[c].pc \in {"idle", "done"}
    /\ calls < MaxCalls
    /\ calls' = calls + 1
    /\ savers' = [savers EXCEPT ![c] = [pc |-> "sessionExists", sessionId |-> sessionId,
                                        title |-> title, date |-> date, ok |-> TRUE,
                                        ret |-> 0]]
    /\ UNCHANGED <<voting_sessions, otherThanSessions>>

\* The query of sessionExists is answered from the table as it is now.
SessionExistsAnswers(c) ==
    /\ savers[c].pc = "sessionExists"
    /\ savers' = [savers EXCEPT ![c].pc =
                     IF sessionExists(DB, ParseInt(savers[c].sessionId), "none")
                     THEN "selectSession" ELSE "insertSession"]
    /\ UNCHANGED <<voting_sessions, calls, otherThanSessions>>

\* The caller found the session stored: it selects the id and returns it.
SelectSessionAnswers(c) ==
    /\ savers[c].pc = "selectSession"
    /\ savers' = [savers EXCEPT ![c].pc = "done", ![c].ok = TRUE,
                                ![c].ret = ParseInt(savers[c].sessionId)]
    /\ UNCHANGED <<voting_sessions, calls, otherThanSessions>>

\* The caller found no session stored: its INSERT runs against the table as it is
\* now; a rejected INSERT is rethrown as 'Failed to save voting session'.
InsertSessionAnswers(c) ==
    /\ savers[c].pc = "insertSession"
    /\ IF InsertSessionFails(DB, ParseInt(savers[c].sessionId), "none")
       THEN /\ savers' = [savers EXCEPT ![c].pc = "done", ![c].ok = FALSE, ![c].ret = 0]
            /\ UNCHANGED voting_sessions
       ELSE /\ savers' = [savers EXCEPT ![c].pc = "done", ![c].ok = TRUE,
                                        ![c].ret = ParseInt(savers[c].sessionId)]
            /\ voting_sessions' = voting_sessions \cup
                  {[id |-> ParseInt(savers[c].sessionId),
                    session_id |-> savers[c].sessionId, title |-> savers[c].title,
                    date |-> savers[c].date, vote_count |-> 0]}
    /\ UNCHANGED <<calls, otherThanSessions>>

NextSessions ==
    \E c \in Callers :
        \/ \E sessionId \in SessionIdStrings, data \in SessionData :
              SaverEnters(c, sessionId, data[1], data[2])
        \/ SessionExistsAnswers(c)
        \/ SelectSessionAnswers(c)
        \/ InsertSessionAnswers(c)

SpecSessions == Init /\ [][NextSessions]_vars

-----------------------------------------------------------------------------
(* Concurrent calls of saveVote on one session: a call gives way at each await *)

otherThanVotes == <<run, cacheVars, fetchVars, tweetVars, gateVars, handleVars>>

\* A caller calls saveVote for session 1 and awaits the select of the politician.
VoterEnters(c, politicianName, party, vote) ==
    /\ savers[c].pc \in {"idle", "done"}
    /\ calls < MaxCalls
    /\ calls' = calls + 1
    /\ savers' = [savers EXCEPT ![c] =
                     [pc |-> "selectPolitician", sessionId |-> 1,
                      politicianName |-> politicianName, party |-> party,
                      vote |-> vote, politicianId |-> 0, voteId |-> 0, ok |-> TRUE]]
    /\ last' = [NoCall EXCEPT !.op = "saveVote",
                              !.args = Append(last.args, <<politicianName, vote>>)]
    /\ UNCHANGED <<voting_sessions, politicians, votes, otherThanVotes>>

\* The select of the politician is answered from the table as it is now: no row,
\* or one of the rows with the name.
SelectPoliticianAnswers(c) ==
    /\ savers[c].pc = "selectPolitician"
    /\ IF SelectPolitician(DB, savers[c].politicianName) = {}
       THEN savers' = [savers EXCEPT ![c].pc = "insertPolitician"]
       ELSE \E p \in SelectPolitician(DB, savers[c].politicianName) :
                savers' = [savers EXCEPT ![c].pc = "updateParty",
                                         ![c].politicianId = p.id]
    /\ UNCHANGED <<voting_sessions, politicians, votes, last, calls, otherThanVotes>>

\* The caller found no politician: its INSERT adds a row.
InsertPoliticianAnswers(c) ==
    /\ savers[c].pc = "insertPolitician"
    /\ politicians' = InsertPolitician(DB, savers[c].politicianName,
                                       savers[c].party).politicians
    /\ savers' = [savers EXCEPT ![c].pc = "selectVote",
                                ![c].politicianId = NextId(politicians)]
    /\ UNCHANGED <<voting_sessions, votes, last, calls, otherThanVotes>>

\* The caller found the politician: its UPDATE sets the party.
UpdatePartyAnswers(c) ==
    /\ savers[c].pc = "updateParty"
    /\ politicians' = UpdateParty(DB, savers[c].politicianId, savers[c].party).politicians
    /\ savers' = [savers EXCEPT ![c].pc = "selectVote"]
    /\ UNCHANGED <<voting_sessions, votes, last, calls, otherThanVotes>>

\* The select of the vote is answered from the table as it is now.
SelectVoteAnswers(c) ==
    /\ savers[c].pc = "selectVote"
    /\ IF SelectVote(DB, savers[c].sessionId, savers[c].politicianId) = {}
       THEN savers' = [savers EXCEPT ![c].pc = "insertVote"]
       ELSE \E v \in SelectVote(DB, savers[c].sessionId, savers[c].politicianId) :
                savers' = [savers EXCEPT ![c].pc = "updateVote", ![c].voteId = v.id]
    /\ UNCHANGED <<voting_sessions, politicians, votes, last, calls, otherThanVotes>>

\* The caller found the vote: its UPDATE overwrites the value, and the call returns.
UpdateVoteAnswers(c) ==
    /\ savers[c].pc = "updateVote"
    /\ votes' = UpdateVote(DB, savers[c].voteId, savers[c].vote).votes
    /\ savers' = [savers EXCEPT ![c].pc = "done"]
    /\ UNCHANGED <<voting_sessions, politicians, last, calls, otherThanVotes>>

\* The caller found no vote: its INSERT runs against the table as it is now; a
\* rejected INSERT is rethrown as 'Failed to save vote'.
InsertVoteAnswers(c) ==
    /\ savers[c].pc = "insertVote"
    /\ IF InsertVoteFails(DB, savers[c].sessionId, savers[c].politicianId, "none")
       THEN /\ savers' = [savers EXCEPT ![c].pc = "done", ![c].ok = FALSE]
            /\ UNCHANGED votes
       ELSE /\ savers' = [savers EXCEPT ![c].pc = "updateVoteCount"]
            /\ votes' = InsertVote(DB, savers[c].sessionId, savers[c].politicianId,
                                   savers[c].vote).votes
    /\ UNCHANGED <<voting_sessions, politicians, last, calls, otherThanVotes>>

\* The caller inserted the vote: its UPDATE adds one to the count of the session as
\* it is now, and the call returns.
UpdateVoteCountAnswers(c) ==
    /\ savers[c].pc = "updateVoteCount"
    /\ voting_sessions' = IncrementVoteCount(DB, savers[c].sessionId).voting_sessions
    /\ savers' = [savers EXCEPT ![c].pc = "done"]
    /\ UNCHANGED <<politicians, votes, last, calls, otherThanVotes>>

NextVotes ==
    \E c \in Callers :
        \/ \E politicianName \in Names, vote \in VoteValues :
              VoterEnters(c, politicianName, "ODS", vote)
        \/ SelectPoliticianAnswers(c)
        \/ InsertPoliticianAnswers(c)
        \/ UpdatePartyAnswers(c)
        \/ SelectVoteAnswers(c)
        \/ UpdateVoteAnswers(c)
        \/ InsertVoteAnswers(c)
        \/ UpdateVoteCountAnswers(c)

SpecVotes == InitStored /\ [][NextVotes]_vars

-----------------------------------------------------------------------------
(* A batch of scraped records applied twice in succession *)

\* The longest batch.
MaxBatch == 2

BatchSessions == {<<<<"1">>, "T1", "D1">>, <<<<"1">>, "T2", "D2">>, <<<<"2">>, "T1", "D1">>}

BatchRecords ==
    [session : BatchSessions, name : Names, party : Parties, vote : VoteValues]

Batches == UNION {[1..n -> BatchRecords] : n \in 1..MaxBatch}

\* One record of the batch: the session upsert, then the vote upsert under the id it
\* returned; a record whose session upsert raises is skipped.
ApplyRecord(db, rec, politician) ==
    LET session == saveVotingSession(db, rec.session[1], rec.session[2], rec.session[3],
                                     "none")
    IN  IF session.ok
        THEN saveVote(session.db, session.ret, rec.name, rec.party, rec.vote, "none",
                      politician).db
        ELSE session.db

InitBatch ==
    /\ VotesStart
    /\ CacheStart
    /\ FetchStart
    /\ TweetsStart
    /\ CallersStart
    /\ HandlesStart
    /\ \E batch \in Batches : run = [batch |-> batch, pass |-> 1, i |-> 1, once |-> {}]

ApplyNext ==
    /\ run.pass \in {1, 2}
    /\ run.i <= Len(run.batch)
    /\ \E politician \in LimitOne(SelectPolitician(DB, run.batch[run.i].name)) :
          LET db == ApplyRecord(DB, run.batch[run.i], politician)
          IN  /\ voting_sessions' = db.voting_sessions
              /\ politicians' = db.politicians
              /\ votes' = db.votes
    /\ run' = [run EXCEPT !.i = @ + 1]
    /\ UNCHANGED <<last, calls, savers, cacheVars, fetchVars, tweetVars, gateVars, handleVars>>

EndPass ==
    /\ run.pass \in {1, 2}
    /\ run.i > Len(run.batch)
    /\ run' = [run EXCEPT !.pass = IF run.pass = 1 THEN 2 ELSE 3,
                          !.i = 1,
                          !.once = IF run.pass = 1 THEN {DB} ELSE @]
    /\ UNCHANGED <<voting_sessions, politicians, votes, last, calls, savers, cacheVars, fetchVars, tweetVars, gateVars, handleVars>>

NextBatch == ApplyNext \/ EndPass

SpecBatch == InitBatch /\ [][NextBatch]_vars

\* C1: a batch applied twice in succession leaves the same session, politician and
\* vote rows, with the same field values and the same vote_count per session, as the
\* batch applied once.
C1_BatchIdempotent == run.pass = 3 => run.once = {DB}

\* C1 witness: both passes are done for a batch that names one (politician, session)
\* pair twice, with different votes and parties, and the pair's vote is stored.
C1_Witness ==
    /\ run.pass = 3
    /\ Len(run.batch) = 2
    /\ Lower(run.batch[1].name) = Lower(run.batch[2].name)
    /\ run.batch[1].session[1] = run.batch[2].session[1]
    /\ run.batch[1].vote /= run.batch[2].vote
    /\ run.batch[1].party /= run.batch[2].party
    /\ Cardinality(votes) = 1
    /\ \E s \in voting_sessions : s.vote_count = 1

-----------------------------------------------------------------------------
(* The cache layer over time *)

\* The number of clock steps a behaviour takes.
MaxTicks == 2

\* The clock advances by one millisecond or by one ttl.
TickSteps == {1, CACHE_TTL}

Tick(d) ==
    /\ ticks < MaxTicks
    /\ ticks' = ticks + 1
    /\ now' = now + d
    /\ lastFetch' = NoFetch
    /\ UNCHANGED <<cache, staleCache, lastGood, voteVars, fetchVars, tweetVars, gateVars, handleVars>>

GetCachedOrFetch(key, outcome) ==
    LET r == getCachedOrFetch(cache, staleCache, key, outcome, now)
    IN  /\ cache' = r.cache
        /\ staleCache' = r.staleCache
        /\ lastFetch' = [op |-> "getCachedOrFetch", key |-> key, fetched |-> r.fetched,
                         outcome |-> IF r.fetched THEN outcome ELSE NotFetched,
                         ok |-> r.ok, ret |-> r.ret, path |-> r.path]
        /\ lastGood' = IF r.fetched /\ outcome.ok
                       THEN [lastGood EXCEPT ![key] = outcome.data]
                       ELSE lastGood
        /\ UNCHANGED <<now, ticks, voteVars, fetchVars, tweetVars, gateVars, handleVars>>

\* The invalidation a committed write ends with: saveTweetsToDatabase deletes two
\* keys, checkAndFixTwitterHandles one.
Invalidate(keys) ==
    /\ cache' = CacheDelete(CacheDelete(cache, keys[1]), keys[2])
    /\ lastFetch' = [NoFetch EXCEPT !.op = "invalidate", !.key = keys]
    /\ UNCHANGED <<now, staleCache, lastGood, ticks, voteVars, fetchVars, tweetVars, gateVars, handleVars>>

NextCache ==
    \/ \E d \in TickSteps : Tick(d)
    \/ \E key \in Keys, outcome \in FetchOutcomes : GetCachedOrFetch(key, outcome)
    \/ \E keys \in {<<"recent_tweets_10", "tweet_stats">>,
                    <<"politicians_with_twitter", "politicians_with_twitter">>} :
          Invalidate(keys)

SpecCache == Init /\ [][NextCache]_vars

\* The entries the primary cache holds under a key: stored by a fetch that succeeded,
\* and neither invalidated nor evicted since.
StoredUnder(key) == {cache[i] : i \in {j \in 1..Len(cache) : cache[j].key = key}}

\* C6: a re-request of a stored key before the ttl has elapsed returns the stored
\* value without invoking fetchFn; a re-request after the ttl has elapsed invokes
\* fetchFn again.
C6_CacheTtl ==
    [][lastFetch'.op = "getCachedOrFetch" =>
          \A e \in StoredUnder(lastFetch'.key) :
              /\ now - e.start < CACHE_TTL =>
                    /\ ~lastFetch'.fetched
                    /\ lastFetch'.ok
                    /\ lastFetch'.ret = e.value.data
              /\ now - e.start > CACHE_TTL => lastFetch'.fetched]_vars

\* C6 witness: a key stored after the clock had advanced by a ttl is served from the
\* cache one millisecond later.
C6_Witness ==
    /\ lastFetch.op = "getCachedOrFetch" /\ lastFetch.path = "cached"
    /\ \E e \in StoredUnder(lastFetch.key) :
          /\ e.start = Epoch + CACHE_TTL
          /\ now = e.start + 1
          /\ lastFetch.ret = e.value.data

\* C7: when fetchFn fails and a value was cached for the key before (by now expired
\* or evicted), the call returns that value; when none ever was, the error of
\* fetchFn reaches the caller unchanged.
C7_StaleFallback ==
    [][(lastFetch'.op = "getCachedOrFetch" /\ lastFetch'.fetched
            /\ ~lastFetch'.outcome.ok) =>
          IF lastGood[lastFetch'.key] /= "never"
          THEN lastFetch'.ok /\ lastFetch'.ret = lastGood[lastFetch'.key]
          ELSE ~lastFetch'.ok /\ lastFetch'.ret = lastFetch'.outcome.error]_vars

\* C7 witness: a failed fetch was answered from the stale store for a key that the
\* primary cache no longer holds.
C7_Witness ==
    /\ lastFetch.op = "getCachedOrFetch" /\ lastFetch.path = "stale"
    /\ lastFetch.ok /\ lastFetch.ret = lastGood[lastFetch.key]
    /\ StoredUnder(lastFetch.key) = {}

-----------------------------------------------------------------------------
(* One rateLimitedFetch call, from its first request to its outcome *)

otherThanFetch == <<voteVars, cache, staleCache, lastFetch, lastGood, ticks, tweetVars, gateVars, handleVars>>

CallFetch ==
    /\ rl.pc = "idle"
    /\ rl' = [IdleCall EXCEPT !.pc = "gate"]
    /\ UNCHANGED <<now, rateLimitInfo, otherThanFetch>>

\* Entry of rateLimitedFetch(url, options, retryCount): read the clock, and sleep
\* until the reset plus the margin when the quota is exhausted.
Gate ==
    /\ rl.pc = "gate"
    /\ IF QuotaExhausted(rateLimitInfo, now)
       THEN LET waitTime == rateLimitInfo.reset - now + RESET_BUFFER
            IN  /\ now' = now + TimerDelay(waitTime)
                /\ rl' = [rl EXCEPT !.pc = "fetch", !.entered = now,
                                    !.waits = Append(@, [why |-> "quota", ms |-> waitTime,
                                                         before |-> Len(rl.requests) + 1])]
       ELSE /\ now' = now
            /\ rl' = [rl EXCEPT !.pc = "fetch", !.entered = now]
    /\ UNCHANGED <<rateLimitInfo, otherThanFetch>>

\* The request is issued and answered: the bookkeeping is updated; a 429 is retried
\* after the backoff delay unless the retries are used up; any other response is
\* returned.
Respond(response) ==
    /\ rl.pc = "fetch"
    /\ LET info == UpdateRateLimit(rateLimitInfo, response, rl.entered)
           n == Len(rl.requests) + 1
           issued == Append(rl.requests,
                            [status |-> response.status, retryAfter |-> response.retryAfter,
                             remaining |-> response.remaining, reset |-> response.reset,
                             at |-> now, info |-> info])
       IN  /\ rateLimitInfo' = info
           /\ IF response.status = 429
              THEN IF RetriesExhausted(rl.retryCount)
                   THEN /\ rl' = [rl EXCEPT !.pc = "done", !.requests = issued,
                                            !.result = [kind |-> "rateLimitExceeded",
                                                        status |-> 429, n |-> n]]
                        /\ now' = now
                   ELSE LET delay == BackoffDelay(response.retryAfter, rl.retryCount)
                        IN  /\ rl' = [rl EXCEPT !.pc = "gate", !.requests = issued,
                                                !.retryCount = @ + 1,
                                                !.waits = Append(@, [why |-> "backoff",
                                                                     ms |-> delay,
                                                                     before |-> n + 1])]
                            /\ now' = now + TimerDelay(delay)
              ELSE /\ rl' = [rl EXCEPT !.pc = "done", !.requests = issued,
                                       !.result = [kind |-> "response",
                                                   status |-> response.status, n |-> n]]
                   /\ now' = now
    /\ UNCHANGED otherThanFetch

\* The request fails without a response (a network error): the error is rethrown.
RequestFails ==
    /\ rl.pc = "fetch"
    /\ rl' = [rl EXCEPT !.pc = "done",
                        !.requests = Append(@, [status |-> 0, retryAfter |-> <<>>,
                                                remaining |-> <<>>, reset |-> <<>>,
                                                at |-> now, info |-> rateLimitInfo]),
                        !.result = [kind |-> "networkError", status |-> 0,
                                    n |-> Len(rl.requests) + 1]]
    /\ UNCHANGED <<now, rateLimitInfo, otherThanFetch>>

NextFetch ==
    \/ CallFetch
    \/ Gate
    \/ \E response \in Responses : Respond(response)
    \/ RequestFails

SpecFetch == Init /\ [][NextFetch]_vars

-----------------------------------------------------------------------------
(* Posts ingested politician by politician *)

MaxIngests == 2
MaxTweets == 2

\* The politicians listed with a handle.
PoliticianIds == {1, 2}

\* What the source returns for a post: its id, its text and its creation time.
TweetData ==
    {[id |-> "t1", text |-> "x", created_at |-> "c1"],
     [id |-> "t1", text |-> "y", created_at |-> "c2"],
     [id |-> "t2", text |-> "x", created_at |-> "c1"]}

RECURSIVE SeqsUpTo(_, _)
SeqsUpTo(S, n) ==
    IF n = 0 THEN {<<>>}
    ELSE SeqsUpTo(S, n - 1) \cup {Append(q, e) : q \in SeqsUpTo(S, n - 1), e \in S}

TweetBatches == SeqsUpTo(TweetData, MaxTweets)

\* One pass of the loop over the politicians: the posts are fetched (or the fetch
\* raises), saved under the politician, and the entry of the report is written.
Ingest(politicianId, tweetData, fail) ==
    /\ ingests < MaxIngests
    /\ LET saved == IF fail = "fetchUserTweets"
                    THEN TweetsThrown(tweets, cache, fail)
                    ELSE saveTweetsToDatabase(tweets, cache, tweetData, politicianId, fail)
       IN  /\ tweets' = saved.tweets
           /\ cache' = saved.cache
           /\ lastIngest' = [politicianId |-> politicianId,
                             batch |-> IF fail = "fetchUserTweets" THEN <<>> ELSE tweetData,
                             detail |-> ReportDetail(politicianId, tweetData, saved)]
    /\ ingests' = ingests + 1
    /\ UNCHANGED <<voteVars, now, staleCache, lastFetch, lastGood, ticks, fetchVars, gateVars, handleVars>>

NextTweets ==
    \E politicianId \in PoliticianIds, tweetData \in TweetBatches,
       fail \in TweetStatements \cup {"none", "fetchUserTweets"} :
        Ingest(politicianId, tweetData, fail)

SpecTweets == Init /\ [][NextTweets]_vars

-----------------------------------------------------------------------------
(* Concurrent rateLimitedFetch calls sharing rateLimitInfo *)

MaxSent == 3

\* The reset times a response may announce: 60 s and 120 s after the start.
LateResetHeaders == ResetHeaders \cup {<<"1", "1", "2", "0">>}

GateResponses ==
    [status : {200, 429}, remaining : RemainingHeaders, reset : LateResetHeaders,
     retryAfter : {<<>>}]

\* GateWake with the slip of leaving out the margin.
GateWakeAtReset(info, t) == info.reset

\* When the sleep of a caller that found the quota exhausted at time t ends.
GateWake(info, t) == t + TimerDelay(info.reset - t + RESET_BUFFER)

Quota(info) == [remaining |-> info.remaining, reset |-> info.reset]

\* fetch(url, options) is called at time t by a caller that entered with state st.
Issue(c, st, t) ==
    /\ callers' = [callers EXCEPT ![c] = [st EXCEPT !.pc = "inflight"]]
    /\ sent' = sent + 1
    /\ lastSent' = [caller |-> c, at |-> t, entered |-> st.entered,
                    exhaustedAtEntry |-> st.exhaustedAtEntry,
                    resetAtEntry |-> st.infoAtEntry.reset,
                    exhausted |-> rateLimitInfo.remaining <= 0 /\ t < rateLimitInfo.reset,
                    updatedSinceEntry |-> Quota(rateLimitInfo) /= st.infoAtEntry]

\* rateLimitedFetch is entered at time t with retryCount retries made: the quota is
\* checked once; the request is issued at once, or after the sleep.
Enter(c, retryCount, t) ==
    LET st == [pc |-> "gateSleep", retryCount |-> retryCount, entered |-> t,
               wake |-> GateWake(rateLimitInfo, t),
               exhaustedAtEntry |-> QuotaExhausted(rateLimitInfo, t),
               infoAtEntry |-> Quota(rateLimitInfo)]
    IN  IF QuotaExhausted(rateLimitInfo, t)
        THEN /\ callers' = [callers EXCEPT ![c] = st]
             /\ UNCHANGED <<sent, lastSent>>
        ELSE Issue(c, [st EXCEPT !.wake = 0], t)

otherThanGate ==
    <<voteVars, cache, staleCache, lastFetch, lastGood, ticks, rl, tweetVars, handleVars,
      lookups>>

LaterOf(a, b) == IF a >= b THEN a ELSE b

CallerEnters(c) ==
    /\ callers[c].pc = "idle"
    /\ sent < MaxSent
    /\ Enter(c, 0, now)
    /\ UNCHANGED <<now, rateLimitInfo, otherThanGate>>

\* The timer of the quota wait fires: the request is issued without a second look
\* at the quota.
GateTimerFires(c) ==
    /\ callers[c].pc = "gateSleep"
    /\ sent < MaxSent
    /\ now' = LaterOf(now, callers[c].wake)
    /\ Issue(c, callers[c], now')
    /\ UNCHANGED <<rateLimitInfo, otherThanGate>>

\* The response of the caller's request arrives: the shared bookkeeping is updated;
\* a 429 is retried after the backoff unless the retries are used up.
ResponseArrives(c, response) ==
    /\ callers[c].pc = "inflight"
    /\ rateLimitInfo' = UpdateRateLimit(rateLimitInfo, response, callers[c].entered)
    /\ callers' = [callers EXCEPT ![c] =
          IF response.status = 429 /\ ~RetriesExhausted(callers[c].retryCount)
          THEN [@ EXCEPT !.pc = "backoffSleep", !.retryCount = @ + 1,
                         !.wake = now + TimerDelay(BackoffDelay(response.retryAfter,
                                                                callers[c].retryCount))]
          ELSE [@ EXCEPT !.pc = "done"]]
    /\ UNCHANGED <<now, sent, lastSent, otherThanGate>>

\* The request of the caller fails without a response.
RequestRejects(c) ==
    /\ callers[c].pc = "inflight"
    /\ callers' = [callers EXCEPT ![c].pc = "done"]
    /\ UNCHANGED <<now, rateLimitInfo, sent, lastSent, otherThanGate>>

\* The timer of the backoff fires: the retry enters rateLimitedFetch again.
BackoffTimerFires(c) ==
    /\ callers[c].pc = "backoffSleep"
    /\ sent < MaxSent
    /\ now' = LaterOf(now, callers[c].wake)
    /\ Enter(c, callers[c].retryCount, now')
    /\ UNCHANGED <<rateLimitInfo, otherThanGate>>

NextGate ==
    \E c \in Callers :
        \/ CallerEnters(c)
        \/ GateTimerFires(c)
        \/ \E response \in GateResponses : ResponseArrives(c, response)
        \/ RequestRejects(c)
        \/ BackoffTimerFires(c)

SpecGate == Init /\ [][NextGate]_vars

\* C11 as stated: no request is issued while the quota is used up and the reset is
\* ahead, and a caller that found the quota used up issues its request no earlier
\* than one second after the reset.
C11_NeverIssuedWhileExhausted ==
    /\ ~lastSent.exhausted
    /\ lastSent.exhaustedAtEntry => lastSent.at >= lastSent.resetAtEntry + 1000

\* C11: a caller that finds the quota used up when it enters is suspended until one
\* second after the reset it read, and one that does not issues its request at
\* once; the quota is looked at once per entry, so a request is issued while the
\* quota is used up only when another caller's response changed the bookkeeping
\* after the issuing caller had entered.
C11_QuotaGatedOnEntry ==
    /\ lastSent.exhaustedAtEntry => lastSent.at >= lastSent.resetAtEntry + 1000
    /\ ~lastSent.exhaustedAtEntry => lastSent.at = lastSent.entered
    /\ lastSent.exhausted => lastSent.updatedSinceEntry

\* A caller that found the quota used up issued its request one second after the
\* reset it had read, at a moment when the quota was used up under a later reset.
C11_Witness ==
    /\ lastSent.exhaustedAtEntry
    /\ lastSent.at = lastSent.resetAtEntry + 1000
    /\ lastSent.exhausted
    /\ \E c \in Callers : c /= lastSent.caller /\ callers[c].pc = "done"

-----------------------------------------------------------------------------
(* Handle fix-ups over the stored handles *)

MaxFixes == 2

\* The politicians are found with any of the stored handles, or with none.
InitHandles ==
    /\ VotesStart
    /\ run = NoRun
    /\ CacheStart
    /\ FetchStart
    /\ TweetsStart
    /\ CallersStart
    /\ handles \in [{1, 2} -> StoredHandles \cup {NullHandle}]
    /\ lastFix = NoFix
    /\ fixes = 0
    /\ pool = NoneCheckedOut

otherThanHandles ==
    <<voteVars, now, staleCache, lastFetch, lastGood, ticks, fetchVars, tweetVars, gateVars,
      pool>>

CheckAndFixTwitterHandles(fail) ==
    /\ fixes < MaxFixes
    /\ fixes' = fixes + 1
    /\ LET r == checkAndFixTwitterHandles(handles, cache, fail)
       IN  /\ handles' = r.handles
           /\ cache' = r.cache
           /\ lastFix' = [op |-> "twitter", before |-> handles, ok |-> r.ok,
                          report |-> r.report, path |-> r.path]
    /\ UNCHANGED otherThanHandles

CheckAndFixTwitterHandlesScraper(order, failAt) ==
    /\ fixes < MaxFixes
    /\ fixes' = fixes + 1
    /\ LET r == checkAndFixTwitterHandlesScraper(handles, order, failAt)
       IN  /\ handles' = r.handles
           /\ lastFix' = [op |-> "scraper", before |-> handles, ok |-> r.ok,
                          report |-> r.report, path |-> r.path]
    /\ UNCHANGED <<cache, otherThanHandles>>

NextHandles ==
    \/ \E fail \in FixStatements \cup {"none"} : CheckAndFixTwitterHandles(fail)
    \/ \E order \in {<<1, 2>>, <<2, 1>>}, failAt \in 0..3 :
          CheckAndFixTwitterHandlesScraper(order, failAt)

SpecHandles == InitHandles /\ [][NextHandles]_vars

-----------------------------------------------------------------------------
(* lib/twitter-scraper.ts: fetchTweetsForAllPoliticians *)

RATE_LIMIT == <<"r", "a", "t", "e", " ", "l", "i", "m", "i", "t">>
HANDLE_IS_EMPTY == <<"T", "w", "i", "t", "t", "e", "r", " ", "h", "a", "n", "d", "l", "e", " ", "i", "s", " ", "e", "m", "p", "t", "y">>
COULD_NOT_EXTRACT == <<"C", "o", "u", "l", "d", " ", "n", "o", "t", " ", "e", "x", "t", "r", "a", "c", "t", " ", "v", "a", "l", "i", "d", " ", "T", "w", "i", "t", "t", "e", "r", " ", "h", "a", "n", "d", "l", "e">>
RateLimitMessage == <<"T", "w", "i", "t", "t", "e", "r", " ", "r", "a", "t", "e", " ", "l", "i", "m", "i", "t", " ", "e", "x", "c", "e", "e", "d", "e", "d">>
NetworkMessage == <<"f", "e", "t", "c", "h", " ", "f", "a", "i", "l", "e", "d">>

\* An entry of the report that carries no error.
NoError == <<"UNDEFINED">>

\* What fetchUserTweets is called to do for one politician: it returns posts, of
\* which the loop uses the number only, or it raises.
FetchedTweets == {[i \in 1..n |-> "tweet"] : n \in 0..MaxTweets}

FetchUserTweetsOutcomes ==
    {[ok |-> TRUE, tweets |-> t, message |-> <<>>] : t \in FetchedTweets}
    \cup {[ok |-> FALSE, tweets |-> <<>>, message |-> m] :
             m \in {RateLimitMessage, NetworkMessage}}

\* saveTweetsToDatabase of lib/twitter-scraper.ts: the length of the batch.
saveTweetsToDatabaseScraper(tweetData, politicianId) == Len(tweetData)

\* The handle the loop extracts from the stored one.
ExtractHandle(h) ==
    Trim(SplitFirst(SplitFirst(StripXCom(StripTwitterCom(h)), SLASH), QUESTION_MARK))

ExtractTable == [h \in HandleValues |-> ExtractHandle(h)]

NoResults(total) ==
    [totalPoliticians |-> total, processedPoliticians |-> 0, totalNewTweets |-> 0,
     totalSkippedTweets |-> 0, details |-> <<>>, rateLimited |-> FALSE]

\* The catch block of the loop with the slip of counting the politician as processed.
FailedCountingProcessed(results, id, h, message) ==
    [results EXCEPT
        !.processedPoliticians = @ + 1,
        !.rateLimited = @ \/ Includes(message, RATE_LIMIT),
        !.details = Append(@, [politicianId |-> id, twitterHandle |-> h, newTweets |-> 0,
                               skippedTweets |-> 0, totalTweets |-> 0,
                               error |-> message])]

\* The catch block of the loop: the entry of a politician whose pass raised.
Failed(results, id, h, message) ==
    [results EXCEPT
        !.rateLimited = @ \/ Includes(message, RATE_LIMIT),
        !.details = Append(@, [politicianId |-> id, twitterHandle |-> h, newTweets |-> 0,
                               skippedTweets |-> 0, totalTweets |-> 0,
                               error |-> message])]

\* The end of the try block: the posts were fetched and saved.
Succeeded(results, id, twitterHandle, tweetData) ==
    [results EXCEPT
        !.processedPoliticians = @ + 1,
        !.totalNewTweets = @ + saveTweetsToDatabaseScraper(tweetData, id),
        !.totalSkippedTweets =
            @ + (Len(tweetData) - saveTweetsToDatabaseScraper(tweetData, id)),
        !.details = Append(@, [politicianId |-> id, twitterHandle |-> twitterHandle,
                               newTweets |-> saveTweetsToDatabaseScraper(tweetData, id),
                               skippedTweets |-> Len(tweetData)
                                   - saveTweetsToDatabaseScraper(tweetData, id),
                               totalTweets |-> Len(tweetData),
                               error |-> NoError])]

\* One pass of the loop.
ProcessPolitician(results, id, h, outcome) ==
    IF h = <<>> THEN Failed(results, id, h, HANDLE_IS_EMPTY)
    ELSE IF ExtractTable[h] = <<>> THEN Failed(results, id, h, COULD_NOT_EXTRACT)
    ELSE IF ~outcome.ok THEN Failed(results, id, h, outcome.message)
    ELSE Succeeded(results, id, ExtractTable[h], outcome.tweets)

RECURSIVE ProcessFrom(_, _, _, _, _)
ProcessFrom(results, list, i, hs, outcomes) ==
    IF i > Len(list) THEN results
    ELSE ProcessFrom(ProcessPolitician(results, list[i], hs[list[i]], outcomes[list[i]]),
                     list, i + 1, hs, outcomes)

\* fetchTweetsForAllPoliticians: order is the order in which the select returns the
\* rows, outcomes what fetchUserTweets does for each politician.
fetchTweetsForAllPoliticians(hs, order, outcomes, failSelect) ==
    IF failSelect
    THEN [ok |-> FALSE, list |-> <<>>, report |-> NoResults(0), path |-> "selectPoliticians"]
    ELSE [ok |-> TRUE,
          list |-> SelectSeq(order, LAMBDA id : id \in WithHandleScraper(hs)),
          report |-> ProcessFrom(
              NoResults(Len(SelectSeq(order, LAMBDA id : id \in WithHandleScraper(hs)))),
              SelectSeq(order, LAMBDA id : id \in WithHandleScraper(hs)), 1, hs, outcomes),
          path |-> "returned"]

FetchTweetsForAllPoliticians(order, outcomes, failSelect) ==
    /\ fixes < MaxFixes
    /\ fixes' = fixes + 1
    /\ LET r == fetchTweetsForAllPoliticians(handles, order, outcomes, failSelect)
       IN  lastFix' = [op |-> "fetchTweetsForAllPoliticians", before |-> handles,
                       list |-> r.list, outcomes |-> outcomes, ok |-> r.ok,
                       report |-> r.report, path |-> r.path]
    /\ UNCHANGED <<handles, cache, otherThanHandles>>

NextFetchAll ==
    \E order \in {<<1, 2>>, <<2, 1>>}, outcomes \in [{1, 2} -> FetchUserTweetsOutcomes],
       failSelect \in BOOLEAN :
        FetchTweetsForAllPoliticians(order, outcomes, failSelect)

\* The politicians are found with a plain handle, a URL with a path, a URL without
\* a handle, or no handle.
InitFetchAll ==
    /\ VotesStart
    /\ run = NoRun
    /\ CacheStart
    /\ FetchStart
    /\ TweetsStart
    /\ CallersStart
    /\ handles \in [{1, 2} -> {HandlePlain, HandleUrlWithPath, HandleBareUrl, NullHandle}]
    /\ lastFix = NoFix
    /\ fixes = 0
    /\ pool = NoneCheckedOut

SpecFetchAll == InitFetchAll /\ [][NextFetchAll]_vars

-----------------------------------------------------------------------------
(* Both saveTweetsToDatabase: lib/twitter.ts and lib/twitter-scraper.ts *)

\* One pass of the loop of lib/twitter-scraper.ts with its own saveTweetsToDatabase:
\* no statement is issued, the length of the batch is returned.
IngestScraper(politicianId, tweetData) ==
    /\ ingests < MaxIngests
    /\ ingests' = ingests + 1
    /\ lastIngest' =
          [politicianId |-> politicianId, batch |-> tweetData,
           detail |-> [politicianId |-> politicianId,
                       newTweets |-> saveTweetsToDatabaseScraper(tweetData, politicianId),
                       skippedTweets |-> Len(tweetData)
                           - saveTweetsToDatabaseScraper(tweetData, politicianId),
                       totalTweets |-> Len(tweetData), error |-> "none"]]
    /\ UNCHANGED <<tweets, voteVars, cacheVars, fetchVars, gateVars, handleVars>>

NextTweetsBoth ==
    \/ NextTweets
    \/ \E politicianId \in PoliticianIds, tweetData \in TweetBatches :
          IngestScraper(politicianId, tweetData)

SpecTweetsBoth == Init /\ [][NextTweetsBoth]_vars

-----------------------------------------------------------------------------
(* saveTweetsToDatabase with the read paths' cache entries in place *)

\* The cache after getCachedOrFetch has fetched the keys of order, one after the
\* other, at the time the module was loaded.
RECURSIVE Fetched(_, _)
Fetched(order, n) ==
    IF n = 0 THEN [cache |-> <<>>, staleCache |-> <<>>]
    ELSE getCachedOrFetch(Fetched(order, n - 1).cache, Fetched(order, n - 1).staleCache,
                          order[n], [ok |-> TRUE, data |-> "v1", error |-> "none"], Epoch)

InitCached ==
    /\ VotesStart
    /\ run = NoRun
    /\ now = Epoch
    /\ \E order \in {<<"recent_tweets_10", "tweet_stats">>}, n \in 1..2 :
          /\ cache = Fetched(order, n).cache
          /\ staleCache = Fetched(order, n).staleCache
          /\ lastGood = [k \in Keys |-> IF \E i \in 1..n : order[i] = k THEN "v1"
                                        ELSE "never"]
    /\ lastFetch = NoFetch
    /\ ticks = 0
    /\ FetchStart
    /\ TweetsStart
    /\ CallersStart
    /\ HandlesStart

SpecTweetsCached == InitCached /\ [][NextTweets]_vars

-----------------------------------------------------------------------------
(* The cached read paths of lib/twitter.ts next to saveTweetsToDatabase *)

\* The limits getRecentTweets is called with.
Limits == {5, 10}

\* `recent_tweets_${limit}`
RecentTweetsKey == [limit \in Limits |-> IF limit = 10 THEN "recent_tweets_10"
                                         ELSE "recent_tweets_5"]

\* The query of getRecentTweets: the stored posts; the store never holds more posts
\* than the smallest limit, so LIMIT cuts nothing off.
RecentTweetsOf(table, limit) == {r \in table : Cardinality(table) <= limit}

\* The query of getTweetStats.
TweetStatsOf(table) ==
    [total_tweets |-> Cardinality(table),
     politicians_with_tweets |-> Cardinality({r.politician_id : r \in table})]

\* A read through getCachedOrFetch whose fetchFn would resolve with data.
CachedRead(op, key, data) ==
    LET outcome == [ok |-> TRUE, data |-> data, error |-> "none"]
        r == getCachedOrFetch(cache, staleCache, key, outcome, now)
    IN  /\ cache' = r.cache
        /\ staleCache' = r.staleCache
        /\ lastFetch' = [op |-> op, key |-> key, fetched |-> r.fetched,
                         outcome |-> IF r.fetched THEN outcome ELSE NotFetched,
                         ok |-> r.ok, ret |-> r.ret, path |-> r.path]
        /\ UNCHANGED <<now, ticks, lastGood, voteVars, fetchVars, tweetVars, gateVars,
                       handleVars>>

GetRecentTweets(limit) ==
    CachedRead("getRecentTweets", RecentTweetsKey[limit], RecentTweetsOf(tweets, limit))

GetTweetStats == CachedRead("getTweetStats", "tweet_stats", TweetStatsOf(tweets))

NextReads ==
    \/ \E limit \in Limits : GetRecentTweets(limit)
    \/ GetTweetStats
    \/ \E politicianId \in PoliticianIds, tweetData \in TweetBatches,
          fail \in {"none", "commit"} :
          Ingest(politicianId, tweetData, fail)

SpecReads == Init /\ [][NextReads]_vars

-----------------------------------------------------------------------------
(* src/db/utils.ts: the cached read facade and its invalidation functions *)

\* ttl: 1000 * 60 * 5
FacadeTtl == 300000

\* `db_stats`, `recent_sessions:${limit}`, `recent_tweets:${limit}`,
\* `politician:${politicianId}` for the default limit and one politician.
FacadeKeys == {"db_stats", "recent_sessions:10", "recent_tweets:10", "politician:1"}

\* lru-cache with updateAgeOnGet: true and allowStale: false: a stale entry is dropped
\* and answered as a miss; a hit becomes the most recently used entry and its age is
\* reset to zero.
FacadeGet(c, key, t) ==
    IF CacheIndex(c, key) = {}
    THEN [cache |-> c, hit |-> FALSE, value |-> NoItem]
    ELSE LET i == CHOOSE j \in CacheIndex(c, key) : TRUE
         IN  IF t - c[i].start > FacadeTtl
             THEN [cache |-> Remove(c, i), hit |-> FALSE, value |-> NoItem]
             ELSE [cache |-> Append(Remove(c, i), [c[i] EXCEPT !.start = t]),
                   hit |-> TRUE, value |-> c[i].value]

\* The body the four read functions share: answer from the cache, or else query the
\* store, cache the result and return it; a failing query is logged and rethrown.
\* A value is the data with the time at which it was computed.
facadeRead(c, key, outcome, t) ==
    LET cached == FacadeGet(c, key, t)
        computed == [data |-> outcome.data, timestamp |-> t]
    IN  IF cached.hit
        THEN [cache |-> cached.cache, fetched |-> FALSE, ok |-> TRUE,
              ret |-> cached.value, path |-> "cached"]
        ELSE IF outcome.ok
             THEN [cache |-> CacheSet(cached.cache, key, computed, t), fetched |-> TRUE,
                   ok |-> TRUE, ret |-> computed, path |-> "fresh"]
             ELSE [cache |-> cached.cache, fetched |-> TRUE, ok |-> FALSE,
                   ret |-> NoItem, path |-> "throw"]

\* An argument of invalidateCache: an array of keys, or something that is no array.
ArrayOf(keys) == [isArray |-> TRUE, keys |-> keys]
NoArray == [isArray |-> FALSE, keys |-> <<>>]

RECURSIVE DeleteEach(_, _, _)
\* keys.forEach(key => cache.delete(key))
DeleteEach(c, keys, i) ==
    IF i > Len(keys) THEN c ELSE DeleteEach(CacheDelete(c, keys[i]), keys, i + 1)

invalidateCache(c, keys) == IF ~keys.isArray THEN c ELSE DeleteEach(c, keys.keys, 1)

clearCache(c) == <<>>

\* cache.keys() of lru-cache walks the entries from the most recent one and passes
\* over those that are stale (allowStale is false).
RECURSIVE KeysFrom(_, _, _)
KeysFrom(c, i, t) ==
    IF i = 0 THEN <<>>
    ELSE IF t - c[i].start > FacadeTtl THEN KeysFrom(c, i - 1, t)
         ELSE <<c[i].key>> \o KeysFrom(c, i - 1, t)

\* getCacheStats() at time t: cache.size counts the entries held, among them the
\* stale ones no get has dropped yet.
getCacheStats(c, t) ==
    [size |-> Len(c), maxSize |-> CacheMax, keys |-> KeysFrom(c, Len(c), t)]

FacadeRead(op, key, outcome) ==
    LET r == facadeRead(cache, key, outcome, now)
    IN  /\ cache' = r.cache
        /\ lastFetch' = [op |-> op, key |-> key, fetched |-> r.fetched,
                         outcome |-> IF r.fetched THEN outcome ELSE NotFetched,
                         ok |-> r.ok, ret |-> r.ret, path |-> r.path]
        /\ UNCHANGED <<now, ticks, staleCache, lastGood, voteVars, fetchVars, tweetVars,
                       gateVars, handleVars>>

GetDatabaseStats(outcome) == FacadeRead("getDatabaseStats", "db_stats", outcome)

GetRecentVotingSessions(outcome) ==
    FacadeRead("getRecentVotingSessions", "recent_sessions:10", outcome)

GetRecentTweetsFacade(outcome) ==
    FacadeRead("getRecentTweets", "recent_tweets:10", outcome)

GetPoliticianData(outcome) == FacadeRead("getPoliticianData", "politician:1", outcome)

InvalidateCache(keys) ==
    /\ cache' = invalidateCache(cache, keys)
    /\ lastFetch' = [NoFetch EXCEPT !.op = "invalidateCache", !.key = keys]
    /\ UNCHANGED <<now, ticks, staleCache, lastGood, voteVars, fetchVars, tweetVars,
                   gateVars, handleVars>>

ClearCache ==
    /\ cache' = clearCache(cache)
    /\ lastFetch' = [NoFetch EXCEPT !.op = "clearCache"]
    /\ UNCHANGED <<now, ticks, staleCache, lastGood, voteVars, fetchVars, tweetVars,
                   gateVars, handleVars>>

\* The clock advances by one millisecond or by one ttl of the facade's cache.
FacadeTickSteps == {1, FacadeTtl}

\* What the store answers to a read: the data, or an error.
FacadeOutcomes ==
    {[ok |-> TRUE, data |-> "v1", error |-> "none"],
     [ok |-> FALSE, data |-> "none", error |-> "e1"]}

InvalidateArguments ==
    {ArrayOf(<<>>), ArrayOf(<<"db_stats">>), ArrayOf(<<"db_stats", "missing">>),
     ArrayOf(<<"recent_tweets:10", "politician:1">>), NoArray}

NextFacade ==
    \/ \E d \in FacadeTickSteps : Tick(d)
    \/ \E outcome \in FacadeOutcomes : GetDatabaseStats(outcome)
    \/ \E outcome \in FacadeOutcomes : GetRecentVotingSessions(outcome)
    \/ \E outcome \in FacadeOutcomes : GetRecentTweetsFacade(outcome)
    \/ \E outcome \in FacadeOutcomes : GetPoliticianData(outcome)
    \/ \E keys \in InvalidateArguments : InvalidateCache(keys)
    \/ ClearCache

SpecFacade == Init /\ [][NextFacade]_vars

-----------------------------------------------------------------------------
(* lib/twitter.ts: getUserIdFromUsername and fetchUserTweets *)

\* s.replace(pat, ''): the first occurrence of pat is removed.
ReplaceFirst(s, pat) ==
    IF ~Includes(s, pat) THEN s
    ELSE SubSeq(s, 1, Len(SplitFirst(s, pat)))
             \o SubSeq(s, Len(SplitFirst(s, pat)) + Len(pat) + 1, Len(s))

\* username.trim().replace('@', '').split('/').pop()?.split('?')[0] || ''
cleanUsername(username) ==
    SplitFirst(SplitPop(ReplaceFirst(Trim(username), AT_SIGN), SLASH), QUESTION_MARK)

\* `twitter_user_${cleanUsername.toLowerCase()}`
UserCacheKey(clean) == <<"twitter_user_", Lower(clean)>>

\* `tweets_${userId}_${maxResults}`
TweetsCacheKey(userId, maxResults) == <<"tweets_", userId, maxResults>>

\* The value null.
Null == <<"NULL">>

UserPlain == <<"A", "b">>
UserAt == <<"@", "a", "b">>
UserPadded == <<" ", "A", "b", " ">>
UserUrl == X_COM \o <<"a", "B">>
UserOther == <<"c", "d">>
UserOnlyAt == <<"@">>

Usernames ==
    {UserPlain, UserAt, UserPadded, UserUrl, UserOther, UserOnlyAt, HandlePlain,
     HandleClean}

CleanTable == [u \in Usernames |-> cleanUsername(u)]

AUTHORIZATION == <<"a", "u", "t", "h", "o", "r", "i", "z", "a", "t", "i", "o", "n">>
NOT_FOUND == <<"n", "o", "t", " ", "f", "o", "u", "n", "d">>
COMMA_SPACE == <<",", " ">>
AuthorizationMessage ==
    <<"T", "w", "i", "t", "t", "e", "r", " ", "A", "P", "I", " ", "a", "u", "t", "h", "o",
      "r", "i", "z", "a", "t", "i", "o", "n", " ", "f", "a", "i", "l", "e", "d", ".", " ",
      "P", "l", "e", "a", "s", "e", " ", "c", "h", "e", "c", "k", " ", "y", "o", "u", "r",
      " ", "A", "P", "I", " ", "k", "e", "y", ".">>
ApiErrorPrefix == <<"T", "w", "i", "t", "t", "e", "r", " ", "A", "P", "I", " ", "e", "r", "r",
      "o", "r", ":", " ">>
CouldNotFindSuffix ==
    <<".", " ", "T", "h", "i", "s", " ", "m", "a", "y", " ", "b", "e", " ", "d", "u", "e",
      " ", "t", "o", " ", "a", "n", " ", "i", "n", "v", "a", "l", "i", "d", " ", "T", "w",
      "i", "t", "t", "e", "r", " ", "A", "P", "I", " ", "k", "e", "y", " ", "o", "r", " ",
      "t", "h", "e", " ", "u", "s", "e", "r", "n", "a", "m", "e", " ", "d", "o", "e", "s",
      "n", "'", "t", " ", "e", "x", "i", "s", "t", ".">>
CouldNotFindPrefix == <<"C", "o", "u", "l", "d", " ", "n", "o", "t", " ", "f", "i", "n", "d",
      " ", "u", "s", "e", "r", " ", "I", "D", " ", "f", "o", "r", " ", "u", "s", "e", "r",
      "n", "a", "m", "e", ":", " ">>

\* A member of the errors array of an error payload; a member without a message
\* has the message Null.
ErrUnauthorized == [title |-> "Unauthorized", message |-> Null]
ErrForbidden == [title |-> "Forbidden", message |-> <<"b", "a", "d", " ", "a", "u", "t", "h",
      "o", "r", "i", "z", "a", "t", "i", "o", "n">>]
ErrNotFound == [title |-> "Not Found", message |-> Null]
ErrNoUser == [title |-> "Invalid Request", message |-> <<"u", "s", "e", "r", " ", "n", "o",
      "t", " ", "f", "o", "u", "n", "d">>]
ErrServer == [title |-> "Server Error", message |-> <<"o", "o", "p", "s">>]
ErrBare == [title |-> "Gone", message |-> Null]

TitleChars ==
    [t \in {"Unauthorized", "Forbidden", "Not Found", "Invalid Request", "Server Error",
            "Gone"} |->
        CASE t = "Unauthorized" -> <<"U", "n", "a", "u", "t", "h", "o", "r", "i", "z", "e", "d">>
          [] t = "Forbidden" -> <<"F", "o", "r", "b", "i", "d", "d", "e", "n">>
          [] t = "Not Found" -> <<"N", "o", "t", " ", "F", "o", "u", "n", "d">>
          [] t = "Invalid Request" -> <<"I", "n", "v", "a", "l", "i", "d", " ", "R", "e", "q",
      "u", "e", "s", "t">>
          [] t = "Server Error" -> <<"S", "e", "r", "v", "e", "r", " ", "E", "r", "r", "o", "r">>
          [] OTHER -> <<"G", "o", "n", "e">>]

\* `${response.status} ${response.statusText}`
StatusLine ==
    [s \in {400, 401, 403, 404, 500} |->
        CASE s = 400 -> <<"4", "0", "0", " ", "B", "a", "d", " ", "R", "e", "q", "u", "e",
      "s", "t">>
          [] s = 401 -> <<"4", "0", "1", " ", "U", "n", "a", "u", "t", "h", "o", "r", "i",
      "z", "e", "d">>
          [] s = 403 -> <<"4", "0", "3", " ", "F", "o", "r", "b", "i", "d", "d", "e", "n">>
          [] s = 404 -> <<"4", "0", "4", " ", "N", "o", "t", " ", "F", "o", "u", "n", "d">>
          [] OTHER -> <<"5", "0", "0", " ", "I", "n", "t", "e", "r", "n", "a", "l", " ", "S",
      "e", "r", "v", "e", "r", " ", "E", "r", "r", "o", "r">>]

\* What the network does with one request: status 0 is a fetch that rejects; the
\* body is JSON with the errors array (empty when the payload has none) and, for
\* a success, the user id or the posts. The responses carry no quota headers.
Attempt(status, errors, id, tweetData) ==
    [status |-> status, errors |-> errors, id |-> id, tweetData |-> tweetData,
     remaining |-> <<>>, reset |-> <<>>, retryAfter |-> <<>>]

Rejects == Attempt(0, <<>>, <<>>, <<>>)
TooMany == Attempt(429, <<>>, <<>>, <<>>)
UserId == <<"7">>
OtherUserId == <<"8">>

LookupFinals ==
    {Attempt(200, <<>>, UserId, <<>>), Attempt(200, <<>>, OtherUserId, <<>>),
     Attempt(200, <<>>, <<>>, <<>>),
     Attempt(404, <<ErrNotFound>>, <<>>, <<>>), Attempt(400, <<ErrNoUser>>, <<>>, <<>>),
     Attempt(401, <<ErrUnauthorized>>, <<>>, <<>>),
     Attempt(403, <<ErrForbidden>>, <<>>, <<>>),
     Attempt(500, <<ErrServer, ErrBare>>, <<>>, <<>>), Attempt(500, <<>>, <<>>, <<>>),
     Rejects}

TweetFinals ==
    {Attempt(200, <<>>, <<>>, t) : t \in FetchedTweets}
    \cup {Attempt(401, <<ErrUnauthorized>>, <<>>, <<>>),
          Attempt(500, <<ErrServer, ErrBare>>, <<>>, <<>>),
          Attempt(500, <<>>, <<>>, <<>>), Attempt(404, <<>>, <<>>, <<>>), Rejects}

\* What the network does with the successive requests of one call: any answer to
\* the first, and to every later one a 429 or the success.
AttemptsAnswered(finals, success) ==
    {[i \in 1..(MAX_RETRIES + 1) |-> IF i = 1 THEN f ELSE rest] :
         f \in finals \cup {TooMany}, rest \in {TooMany, success}}

LookupAttempts == AttemptsAnswered(LookupFinals, Attempt(200, <<>>, UserId, <<>>))
TweetAttempts == AttemptsAnswered(TweetFinals, Attempt(200, <<>>, <<>>, <<"tweet">>))

\* response.ok
ResponseOk(response) == response.status \in 200..299

\* rateLimitedFetch with the slip of retrying every response that is no success.
RECURSIVE rateLimitedFetchRetryingErrors(_, _)
rateLimitedFetchRetryingErrors(attempts, retryCount) ==
    LET a == attempts[retryCount + 1]
    IN  IF a.status = 0
        THEN [thrown |-> TRUE, message |-> NetworkMessage, response |-> a,
              requests |-> retryCount + 1]
        ELSE IF ~ResponseOk(a)
             THEN IF RetriesExhausted(retryCount)
                  THEN [thrown |-> TRUE, message |-> RateLimitMessage, response |-> a,
                        requests |-> retryCount + 1]
                  ELSE rateLimitedFetchRetryingErrors(attempts, retryCount + 1)
             ELSE [thrown |-> FALSE, message |-> <<>>, response |-> a,
                   requests |-> retryCount + 1]

\* rateLimitedFetch(url, options, retryCount) where the quota is not exhausted:
\* one request per entry; a 429 is retried until the retries are used up.
RECURSIVE rateLimitedFetch(_, _)
rateLimitedFetch(attempts, retryCount) ==
    LET a == attempts[retryCount + 1]
    IN  IF a.status = 0
        THEN [thrown |-> TRUE, message |-> NetworkMessage, response |-> a,
              requests |-> retryCount + 1]
        ELSE IF a.status = 429
             THEN IF RetriesExhausted(retryCount)
                  THEN [thrown |-> TRUE, message |-> RateLimitMessage, response |-> a,
                        requests |-> retryCount + 1]
                  ELSE rateLimitedFetch(attempts, retryCount + 1)
             ELSE [thrown |-> FALSE, message |-> <<>>, response |-> a,
                   requests |-> retryCount + 1]

\* error.message || error.title
MessageOrTitle(e) ==
    IF e.message /= Null /\ e.message /= <<>> THEN e.message ELSE TitleChars[e.title]

\* errors.map(e => e.message || e.title).join(', ')
RECURSIVE JoinMessages(_, _)
JoinMessages(errors, i) ==
    IF i > Len(errors) THEN <<>>
    ELSE IF i = Len(errors) THEN MessageOrTitle(errors[i])
    ELSE MessageOrTitle(errors[i]) \o COMMA_SPACE \o JoinMessages(errors, i + 1)

ApiErrorMessage(errors) == ApiErrorPrefix \o JoinMessages(errors, 1)
StatusErrorMessage(response) == ApiErrorPrefix \o StatusLine[response.status]

IsUnauthorized(e) ==
    e.title = "Unauthorized" \/ (e.message /= Null /\ Includes(e.message, AUTHORIZATION))
IsNotFound(e) ==
    e.title = "Not Found" \/ (e.message /= Null /\ Includes(e.message, NOT_FOUND))

Raises(message) == [thrown |-> TRUE, message |-> message, data |-> Null]
Gives(data) == [thrown |-> FALSE, message |-> <<>>, data |-> data]

\* The loop over the errors of the payload of the user request: the first member
\* that names an authorization failure raises, the first that names a user that
\* was not found returns null.
RECURSIVE LookupErrors(_, _)
LookupErrors(errors, i) ==
    IF i > Len(errors) THEN Raises(ApiErrorMessage(errors))
    ELSE IF IsUnauthorized(errors[i]) THEN Raises(AuthorizationMessage)
    ELSE IF IsNotFound(errors[i]) THEN Gives(Null)
    ELSE LookupErrors(errors, i + 1)

\* The try block of the function getUserIdFromUsername hands to getCachedOrFetch.
LookupTry(res) ==
    IF res.thrown THEN Raises(res.message)
    ELSE IF ~ResponseOk(res.response)
         THEN IF res.response.errors /= <<>>
              THEN LookupErrors(res.response.errors, 1)
              ELSE Raises(StatusErrorMessage(res.response))
         ELSE Gives(IF res.response.id = <<>> THEN Null ELSE res.response.id)

\* LookupFetchFn without the catch block: what the try block raises is raised.
LookupFetchFnRaising(res) ==
    IF LookupTry(res).thrown
    THEN [ok |-> FALSE, data |-> "none", error |-> LookupTry(res).message]
    ELSE [ok |-> TRUE, data |-> LookupTry(res).data, error |-> "none"]

\* The function getUserIdFromUsername hands to getCachedOrFetch: whatever the try
\* block raises is caught, logged and answered with null.
LookupFetchFn(res) ==
    [ok |-> TRUE, data |-> IF LookupTry(res).thrown THEN Null ELSE LookupTry(res).data,
     error |-> "none"]

\* What rateLimitedFetch and the function handed to getCachedOrFetch make of each
\* course of the network.
LookupResults == [a \in LookupAttempts |-> rateLimitedFetch(a, 0)]
LookupOutcomes == [a \in LookupAttempts |-> LookupFetchFn(LookupResults[a])]

\* getCachedOrFetch from the point where the awaited fetchFn settles, the cache
\* having been missed before the await.
getCachedOrFetchSettles(c, stale, key, outcome, t) ==
    IF outcome.ok
    THEN LET cacheItem == [data |-> outcome.data, timestamp |-> t]
         IN  [cache |-> CacheSet(c, key, cacheItem, t),
              staleCache |-> Put(stale, key, cacheItem),
              fetched |-> TRUE, ok |-> TRUE, ret |-> outcome.data, path |-> "fresh"]
    ELSE IF key \in DOMAIN stale
         THEN [cache |-> c, staleCache |-> stale, fetched |-> TRUE, ok |-> TRUE,
               ret |-> stale[key].data, path |-> "stale"]
         ELSE [cache |-> c, staleCache |-> stale, fetched |-> TRUE, ok |-> FALSE,
               ret |-> outcome.error, path |-> "throw"]

\* What getUserIdFromUsername returns given the result r of getCachedOrFetch and
\* the result res of rateLimitedFetch.
LookupReturns(r, res) ==
    [cache |-> r.cache, staleCache |-> r.staleCache, fetched |-> r.fetched,
     ok |-> r.ok, ret |-> r.ret, path |-> r.path,
     requests |-> IF r.fetched THEN res.requests ELSE 0,
     raised |-> IF r.path \in {"fresh", "throw"} /\ res.thrown THEN res.message
                ELSE <<>>]

\* getUserIdFromUsername(username) run without interruption; attempts is what the
\* network does if requests are issued.
getUserIdFromUsername(c, stale, username, attempts, t) ==
    IF CleanTable[username] = <<>>
    THEN [cache |-> c, staleCache |-> stale, fetched |-> FALSE, ok |-> TRUE,
          ret |-> Null, path |-> "empty", requests |-> 0, raised |-> <<>>]
    ELSE LookupReturns(getCachedOrFetch(c, stale, UserCacheKey(CleanTable[username]),
                                        LookupOutcomes[attempts], t),
                       LookupResults[attempts])

\* The function fetchUserTweets hands to getCachedOrFetch: a response that is no
\* success raises the messages of the payload, or the status; a success gives the
\* posts of the payload.
TweetsFetchFn(res) ==
    IF res.thrown THEN [ok |-> FALSE, data |-> "none", error |-> res.message]
    ELSE IF ~ResponseOk(res.response)
         THEN [ok |-> FALSE, data |-> "none",
               error |-> IF res.response.errors /= <<>>
                         THEN ApiErrorMessage(res.response.errors)
                         ELSE StatusErrorMessage(res.response)]
         ELSE [ok |-> TRUE, data |-> res.response.tweetData, error |-> "none"]

TweetResults == [a \in TweetAttempts |-> rateLimitedFetch(a, 0)]
TweetOutcomes == [a \in TweetAttempts |-> TweetsFetchFn(TweetResults[a])]

DEFAULT_MAX_RESULTS == 100

CouldNotFindMessage(username) == CouldNotFindPrefix \o username \o CouldNotFindSuffix

\* What fetchUserTweets returns given the result r of getCachedOrFetch, the
\* result res of rateLimitedFetch and the lookup u.
TweetsReturns(r, res, u) ==
    [cache |-> r.cache, staleCache |-> r.staleCache, ok |-> r.ok, ret |-> r.ret,
     path |-> r.path, lookup |-> u, fetched |-> r.fetched,
     requests |-> IF r.fetched THEN res.requests ELSE 0, res |-> res]

\* fetchUserTweets from the point where the lookup u returned.
TweetsOfUser(u, username, timeline, t) ==
    IF ~u.ok
    THEN [cache |-> u.cache, staleCache |-> u.staleCache, ok |-> FALSE, ret |-> u.ret,
          path |-> "lookupThrow", lookup |-> u, fetched |-> FALSE, requests |-> 0,
          res |-> TweetResults[timeline]]
    ELSE IF u.ret = Null
    THEN [cache |-> u.cache, staleCache |-> u.staleCache, ok |-> FALSE,
          ret |-> CouldNotFindMessage(username), path |-> "noUserId", lookup |-> u,
          fetched |-> FALSE, requests |-> 0, res |-> TweetResults[timeline]]
    ELSE TweetsReturns(getCachedOrFetch(u.cache, u.staleCache,
                                        TweetsCacheKey(u.ret, DEFAULT_MAX_RESULTS),
                                        TweetOutcomes[timeline], t),
                       TweetResults[timeline], u)

\* fetchUserTweets(username) with the API key configured; lookup and timeline are
\* what the network does with the requests for the user and for the posts.
fetchUserTweets(c, stale, username, lookup, timeline, t) ==
    TweetsOfUser(getUserIdFromUsername(c, stale, username, lookup, t), username,
                 timeline, t)

-----------------------------------------------------------------------------
(* Overlapping getUserIdFromUsername calls sharing the cache *)

otherThanLookups ==
    <<voteVars, lastFetch, lastGood, ticks, tweetVars, callers, lastSent, handleVars, rl>>

\* The quota bookkeeping of requests whose responses carry no quota headers.
Bookkeeping(res) ==
    IF res.requests = 1 /\ res.response.status = 0 THEN rateLimitInfo
    ELSE UpdateRateLimit(rateLimitInfo, TooMany, now)

\* A caller enters getUserIdFromUsername: an empty name is answered with null, a
\* cached value is answered at once, else the request is issued and awaited.
LookupStarts(c, username) ==
    /\ lookups[c].pc \in {"idle", "done"}
    /\ LET key == UserCacheKey(CleanTable[username])
           cachedValue == CacheGet(cache, key, now)
           call == [IdleLookup EXCEPT !.username = username, !.key = key, !.at = now]
       IN  IF CleanTable[username] = <<>>
           THEN /\ lookups' = [lookups EXCEPT ![c] =
                                  [call EXCEPT !.pc = "done", !.ret = Null,
                                               !.path = "empty"]]
                /\ UNCHANGED <<cache, staleCache>>
           ELSE IF cachedValue.hit
           THEN /\ lookups' = [lookups EXCEPT ![c] =
                                  [call EXCEPT !.pc = "done",
                                               !.ret = cachedValue.value.data,
                                               !.path = "cached"]]
                /\ cache' = cachedValue.cache
                /\ staleCache' = Put(staleCache, key, cachedValue.value)
           ELSE /\ lookups' = [lookups EXCEPT ![c] = [call EXCEPT !.pc = "awaiting"]]
                /\ cache' = cachedValue.cache
                /\ UNCHANGED staleCache
    /\ UNCHANGED <<now, sent, rateLimitInfo, otherThanLookups>>

\* The requests of an awaiting caller are answered: the value is stored and
\* returned.
LookupSettles(c, attempts) ==
    /\ lookups[c].pc = "awaiting"
    /\ LET res == LookupResults[attempts]
           r == getCachedOrFetchSettles(cache, staleCache, lookups[c].key,
                                        LookupOutcomes[attempts], now)
       IN  /\ cache' = r.cache
           /\ staleCache' = r.staleCache
           /\ rateLimitInfo' = Bookkeeping(res)
           /\ lookups' = [lookups EXCEPT ![c] =
                             [@ EXCEPT !.pc = "done", !.ok = r.ok, !.ret = r.ret,
                                       !.path = r.path, !.requests = res.requests,
                                       !.response = res.response]]
    /\ UNCHANGED <<now, sent, otherThanLookups>>

LookupUsernames == {UserPadded, UserUrl, UserOnlyAt}

NextLookups ==
    \/ \E c \in Callers, username \in LookupUsernames : LookupStarts(c, username)
    \/ \E c \in Callers, attempts \in LookupAttempts : LookupSettles(c, attempts)
    \/ \E d \in TickSteps : Tick(d)

SpecLookups == Init /\ [][NextLookups]_vars

-----------------------------------------------------------------------------
(* Cached reads of lib/twitter.ts that overlap with saveTweetsToDatabase *)

\* What the store holds for the listing or aggregate cached under a key.
StoreValue(key) ==
    IF key = "tweet_stats" THEN TweetStatsOf(tweets)
    ELSE IF key = "recent_tweets_10" THEN RecentTweetsOf(tweets, 10)
    ELSE RecentTweetsOf(tweets, 5)

\* What the query of a read resolves with when it runs now, or its failure.
QueryOutcome(key, fail) ==
    IF fail THEN [ok |-> FALSE, data |-> "none", error |-> "e1"]
    ELSE [ok |-> TRUE, data |-> StoreValue(key), error |-> "none"]

\* getCachedOrFetch up to its await: a hit is returned at once; after a miss the
\* query runs against the store as it is and the caller awaits its result.
ReadStarts(c, op, key, fail) ==
    /\ lookups[c].pc = "idle"
    /\ LET cachedValue == CacheGet(cache, key, now)
       IN  /\ cache' = cachedValue.cache
           /\ IF cachedValue.hit
              THEN /\ staleCache' = Put(staleCache, key, cachedValue.value)
                   /\ lastFetch' = [op |-> op, key |-> key, fetched |-> FALSE,
                                    outcome |-> NotFetched, ok |-> TRUE,
                                    ret |-> cachedValue.value.data, path |-> "cached"]
                   /\ UNCHANGED lookups
              ELSE /\ lookups' = [lookups EXCEPT ![c] =
                                     [pc |-> "awaiting", op |-> op, key |-> key,
                                      outcome |-> QueryOutcome(key, fail)]]
                   /\ lastFetch' = [NoFetch EXCEPT !.op = op, !.key = key,
                                                   !.path = "awaiting"]
                   /\ UNCHANGED staleCache
    /\ UNCHANGED <<voteVars, now, lastGood, ticks, fetchVars, tweetVars, callers, sent,
                   lastSent, handleVars>>

\* getCachedOrFetch from its await on: the result of the query is stored in both
\* caches and returned; after a failure the stale value is returned, or the error
\* rethrown.
ReadSettles(c) ==
    /\ lookups[c].pc = "awaiting"
    /\ LET r == getCachedOrFetchSettles(cache, staleCache, lookups[c].key,
                                        lookups[c].outcome, now)
       IN  /\ cache' = r.cache
           /\ staleCache' = r.staleCache
           /\ lastFetch' = [op |-> lookups[c].op, key |-> lookups[c].key,
                            fetched |-> TRUE, outcome |-> lookups[c].outcome,
                            ok |-> r.ok, ret |-> r.ret, path |-> r.path]
    /\ lookups' = [lookups EXCEPT ![c] = IdleLookup]
    /\ UNCHANGED <<voteVars, now, lastGood, ticks, fetchVars, tweetVars, callers, sent,
                   lastSent, handleVars>>

GetRecentTweetsStarts(c, fail) ==
    ReadStarts(c, "getRecentTweets", RecentTweetsKey[10], fail)

GetTweetStatsStarts(c, fail) == ReadStarts(c, "getTweetStats", "tweet_stats", fail)

NextOverlap ==
    \/ \E c \in Callers, fail \in BOOLEAN : GetRecentTweetsStarts(c, fail)
    \/ \E c \in Callers, fail \in BOOLEAN : GetTweetStatsStarts(c, fail)
    \/ \E c \in Callers : ReadSettles(c)
    \/ \E tweetData \in {b \in TweetBatches : Len(b) = 1}, fail \in {"none", "commit"} :
          Ingest(1, tweetData, fail)

SpecOverlap == Init /\ [][NextOverlap]_vars

-----------------------------------------------------------------------------
(* The connection pools: getClient of src/db/config.ts, executeQuery and
   executeTransaction of src/db/utils.ts, and the transactions of lib/twitter.ts *)

\* getClient = async (retries = 3)
DefaultRetries == 3

\* What an attempt of getClient meets: pool.connect() rejects ("connect"), the SET
\* statement_timeout query rejects ("set"), or both resolve ("none").
ClientAttempts ==
    {a \in [1..(DefaultRetries + 1) -> {"connect", "set", "none"}] :
        \A i \in 1..DefaultRetries : a[i] = "none" => a[i + 1] = "none"}

\* The pool events of one attempt; "connect" is a client handed out.
AttemptLog(outcome) ==
    IF outcome = "connect" THEN <<"connect raises">>
    ELSE IF outcome = "set" THEN <<"connect", "SET raises">>
    ELSE <<"connect", "SET">>

RECURSIVE getClient(_, _)
\* getClient(retries) at its attempt i: the client is returned, or the catch block
\* waits and calls getClient(retries - 1) while retries > 0, or rethrows.
getClient(attempts, i) ==
    IF attempts[i] = "none"
    THEN [ok |-> TRUE, raised |-> "none", log |-> AttemptLog(attempts[i])]
    ELSE IF DefaultRetries - (i - 1) > 0
         THEN LET next == getClient(attempts, i + 1)
              IN  [next EXCEPT !.log = AttemptLog(attempts[i]) \o next.log]
         ELSE [ok |-> FALSE, raised |-> attempts[i], log |-> AttemptLog(attempts[i])]

\* The attempts of getClient the calls meet.
PoolAttempts ==
    {a \in ClientAttempts : \A i \in 3..(DefaultRetries + 1) : a[i] = a[2]}

\* getClient, computed once per course of attempts.
ClientTable == [a \in PoolAttempts |-> getClient(a, 1)]

\* The statements a try block issues when the one named by fail raises.
RECURSIVE IssuedUpTo(_, _, _)
IssuedUpTo(steps, fail, i) ==
    IF i > Len(steps) THEN <<>>
    ELSE IF steps[i] = fail THEN <<steps[i] \o " raises">>
    ELSE <<steps[i]>> \o IssuedUpTo(steps, fail, i + 1)

\* catch (error) { await client.query('ROLLBACK'); throw error }: what the catch
\* block issues and what leaves it.
CatchBlock(fail, rollbackFails) ==
    [log |-> IF rollbackFails THEN <<"ROLLBACK raises">> ELSE <<"ROLLBACK">>,
     raised |-> IF rollbackFails THEN "ROLLBACK" ELSE fail]

\* try { steps } catch { ROLLBACK; throw } finally { client.release() } on a client
\* that is checked out.
TryCatchFinally(steps, fail, rollbackFails) ==
    IF fail \notin {steps[i] : i \in DOMAIN steps}
    THEN [ok |-> TRUE, raised |-> "none", log |-> steps \o <<"release">>]
    ELSE [ok |-> FALSE, raised |-> CatchBlock(fail, rollbackFails).raised,
          log |-> IssuedUpTo(steps, fail, 1) \o CatchBlock(fail, rollbackFails).log
                    \o <<"release">>]

\* executeQuery of src/db/config.ts: getClient, the query, release in finally.
executeQueryWithClient(attempts, fail) ==
    LET client == ClientTable[attempts]
    IN  IF ~client.ok THEN client
        ELSE [ok |-> fail /= "query", raised |-> IF fail = "query" THEN fail ELSE "none",
              log |-> client.log \o IssuedUpTo(<<"query">>, fail, 1) \o <<"release">>]

\* executeQuery of src/db/utils.ts without the cache: pool.connect(), the query,
\* release in finally.
executeQuery(fail) ==
    IF fail = "connect" THEN [ok |-> FALSE, raised |-> fail, log |-> <<"connect raises">>]
    ELSE [ok |-> fail /= "query", raised |-> IF fail = "query" THEN fail ELSE "none",
          log |-> <<"connect">> \o IssuedUpTo(<<"query">>, fail, 1) \o <<"release">>]

\* executeTransaction(callback) of src/db/utils.ts.
executeTransaction(fail, rollbackFails) ==
    IF fail = "connect" THEN [ok |-> FALSE, raised |-> fail, log |-> <<"connect raises">>]
    ELSE LET r == TryCatchFinally(<<"BEGIN", "callback", "COMMIT">>, fail, rollbackFails)
         IN  [r EXCEPT !.log = <<"connect">> \o r.log]

\* The client handling of saveTweetsToDatabase and checkAndFixTwitterHandles of
\* lib/twitter.ts: getClient inside the try block, ROLLBACK in the catch block and
\* release in the finally block if a client was obtained; raisedAt is the statement
\* that raised, or "none".
WithClient(attempts, raisedAt, rollbackFails) ==
    LET client == ClientTable[attempts]
    IN  IF ~client.ok THEN client
        ELSE IF raisedAt = "none"
        THEN [ok |-> TRUE, raised |-> "none", log |-> client.log \o <<"release">>]
        ELSE [ok |-> FALSE, raised |-> CatchBlock(raisedAt, rollbackFails).raised,
              log |-> client.log \o CatchBlock(raisedAt, rollbackFails).log
                        \o <<"release">>]

\* The clients a call has checked out and not released.
RECURSIVE Held(_, _)
Held(log, i) ==
    IF i > Len(log) THEN 0
    ELSE Held(log, i + 1) + (IF log[i] = "connect" THEN 1
                             ELSE IF log[i] = "release" THEN -1 ELSE 0)

\* A call on one of the pools has settled: what it raised and the pool events and
\* statements it issued are recorded.
Settled(op, which, r) ==
    /\ calls < MaxCalls
    /\ calls' = calls + 1
    /\ pool' = [pool EXCEPT ![which] = @ + Held(r.log, 1)]
    /\ last' = [op |-> op, args |-> <<>>, ok |-> r.ok, ret |-> r.raised, path |-> r.log]

otherThanPool ==
    <<voting_sessions, politicians, votes, run, savers, cacheVars, fetchVars, tweetVars,
      gateVars, handles, lastFix, fixes>>

ExecuteQueryWithClient(attempts, fail) ==
    /\ Settled("executeQuery", "config",
               executeQueryWithClient(attempts, fail))
    /\ UNCHANGED otherThanPool

ExecuteQuery(fail) ==
    /\ Settled("executeQuery", "utils", executeQuery(fail))
    /\ UNCHANGED otherThanPool

ExecuteTransaction(fail, rollbackFails) ==
    /\ Settled("executeTransaction", "utils",
               executeTransaction(fail, rollbackFails))
    /\ UNCHANGED otherThanPool

\* saveTweetsToDatabase with its client: an empty batch takes no client.
SaveTweetsToDatabase(tweetData, politicianId, attempts, fail, rollbackFails) ==
    LET client == ClientTable[attempts]
        saved == saveTweetsToDatabase(tweets, cache, tweetData, politicianId,
                                      IF client.ok THEN fail ELSE "getClient")
        r == IF saved.path = "empty" THEN [ok |-> TRUE, raised |-> "none", log |-> <<>>]
             ELSE WithClient(attempts, IF saved.ok THEN "none" ELSE saved.path,
                             rollbackFails)
    IN  /\ Settled("saveTweetsToDatabase", "config", r)
        /\ tweets' = saved.tweets
        /\ cache' = saved.cache
        /\ UNCHANGED <<voting_sessions, politicians, votes, run, savers, now, staleCache,
                       lastFetch, lastGood, ticks, fetchVars, lastIngest, ingests,
                       gateVars, handles, lastFix, fixes>>

\* checkAndFixTwitterHandles of lib/twitter.ts with its client.
CheckAndFixWithClient(attempts, fail, rollbackFails) ==
    LET client == ClientTable[attempts]
        fixed == checkAndFixTwitterHandles(handles, cache,
                                           IF client.ok THEN fail ELSE "getClient")
        r == WithClient(attempts, IF fixed.ok THEN "none" ELSE fixed.path, rollbackFails)
    IN  /\ Settled("checkAndFixTwitterHandles", "config", r)
        /\ handles' = fixed.handles
        /\ cache' = fixed.cache
        /\ lastFix' = [op |-> "twitter", before |-> handles, ok |-> fixed.ok,
                       report |-> fixed.report, path |-> fixed.path]
        /\ UNCHANGED <<voting_sessions, politicians, votes, run, savers, now, staleCache,
                       lastFetch, lastGood, ticks, fetchVars, tweetVars, gateVars, fixes>>

NextPool ==
    \/ \E attempts \in PoolAttempts, fail \in {"none", "query"} :
          ExecuteQueryWithClient(attempts, fail)
    \/ \E fail \in {"none", "connect", "query"} : ExecuteQuery(fail)
    \/ \E fail \in {"none", "connect", "BEGIN", "callback", "COMMIT"},
          rollbackFails \in BOOLEAN :
          ExecuteTransaction(fail, rollbackFails)
    \/ \E tweetData \in {<<>>, <<[id |-> "t1", text |-> "x", created_at |-> "c1"]>>},
          attempts \in PoolAttempts, fail \in {"none", "begin", "insertTweets", "commit"},
          rollbackFails \in BOOLEAN :
          SaveTweetsToDatabase(tweetData, 1, attempts, fail, rollbackFails)
    \/ \E attempts \in PoolAttempts, fail \in {"none", "selectHandles", "updateHandles"},
          rollbackFails \in BOOLEAN :
          CheckAndFixWithClient(attempts, fail, rollbackFails)

\* One politician is stored with a handle the fix-up rewrites.
InitPool == InitHandles /\ handles = <<HandleAt, NullHandle>>

SpecPool == InitPool /\ [][NextPool]_vars

-----------------------------------------------------------------------------
(* fetchUserTweets calls, one after the other *)

\* The effect of a fetchUserTweets call that returned r.
UserTweetsFetched(r, username, lookup, timeline) ==
    /\ cache' = r.cache
    /\ staleCache' = r.staleCache
    /\ sent' = sent + r.lookup.requests + r.requests
    /\ rateLimitInfo' =
           IF r.requests > 0 THEN Bookkeeping(r.res)
           ELSE IF r.lookup.requests > 0 THEN Bookkeeping(LookupResults[lookup])
           ELSE rateLimitInfo
    /\ lastFetch' =
           [op |-> "fetchUserTweets", key |-> username, fetched |-> r.fetched,
            outcome |-> NotFetched, ok |-> r.ok, ret |-> r.ret, path |-> r.path,
            userId |-> r.lookup.ret, requests |-> r.requests,
            lookupRequests |-> r.lookup.requests,
            response |-> IF r.fetched THEN r.res.response ELSE TooMany,
            first |-> IF r.fetched THEN timeline[1] ELSE TooMany,
            kept |-> r.lookup.ret /= Null
                     /\ TweetsCacheKey(r.lookup.ret, DEFAULT_MAX_RESULTS)
                            \in DOMAIN staleCache]

\* fetchUserTweets(username): the user id is looked up, the posts are requested;
\* lookup and timeline are what the network does with the requests.
FetchUserTweets(username, lookup, timeline) ==
    /\ sent < MaxSent
    /\ UserTweetsFetched(fetchUserTweets(cache, staleCache, username, lookup, timeline,
                                         now), username, lookup, timeline)
    /\ UNCHANGED <<now, lastGood, ticks, voteVars, rl, tweetVars, callers, lastSent,
                   lookups, handleVars>>

TweetUsernames == {UserPlain, UserAt, UserOnlyAt}

\* The courses of the user request: answered at once with the id, with an
\* authorization failure or with an error, rejected, or 429 throughout.
TweetLookups ==
    {a \in LookupAttempts :
        /\ a[2] = TooMany
        /\ a[1].status \in {200, 401, 429, 0}
        /\ a[1].status = 200 => a[1].id = UserId}

NextUserTweets ==
    \/ \E username \in TweetUsernames, lookup \in TweetLookups,
          timeline \in TweetAttempts : FetchUserTweets(username, lookup, timeline)
    \/ \E d \in TickSteps : Tick(d)

SpecUserTweets == Init /\ [][NextUserTweets]_vars

-----------------------------------------------------------------------------
(* fetchTweetsForAllPoliticians of lib/twitter-scraper.ts calling fetchUserTweets
   of lib/twitter.ts *)

\* What the loop sees of a fetchUserTweets call that returned r.
ApiOutcome(r) ==
    [ok |-> r.ok, tweets |-> IF r.ok THEN r.ret ELSE <<>>,
     message |-> IF r.ok THEN <<>> ELSE r.ret]

\* The call failed because rateLimitedFetch used up its retries, in the request
\* for the user or in the request for the posts.
ExhaustedIn(r) ==
    \/ r.path \in {"noUserId", "lookupThrow"} /\ r.lookup.raised = RateLimitMessage
    \/ r.path = "throw" /\ r.res.thrown /\ r.res.message = RateLimitMessage

NoPass(hs) == [report |-> NoResults(0), cache |-> cache, staleCache |-> staleCache,
               exhausted |-> {}]

\* One pass of the loop whose fetchUserTweets call returned r.
PassWithApi(acc, id, h, r) ==
    [report |-> ProcessPolitician(acc.report, id, h, ApiOutcome(r)),
     cache |-> r.cache, staleCache |-> r.staleCache,
     exhausted |-> IF ExhaustedIn(r) THEN acc.exhausted \cup {id} ELSE acc.exhausted]

\* One pass of the loop that raises before fetchUserTweets is called.
PassWithoutCall(acc, id, h) ==
    [acc EXCEPT !.report = ProcessPolitician(acc.report, id, h,
                                             [ok |-> TRUE, tweets |-> <<>>,
                                              message |-> <<>>])]

RECURSIVE ProcessWithApi(_, _, _, _, _, _)
ProcessWithApi(acc, list, i, hs, net, t) ==
    IF i > Len(list) THEN acc
    ELSE ProcessWithApi(
             IF hs[list[i]] = <<>> \/ ExtractTable[hs[list[i]]] = <<>>
             THEN PassWithoutCall(acc, list[i], hs[list[i]])
             ELSE PassWithApi(acc, list[i], hs[list[i]],
                              fetchUserTweets(acc.cache, acc.staleCache,
                                              ExtractTable[hs[list[i]]],
                                              net[list[i]].lookup,
                                              net[list[i]].timeline, t)),
             list, i + 1, hs, net, t)

\* The loop from the point where the select returned list.
LoopWithApi(list, hs, net, t) ==
    ProcessWithApi([NoPass(hs) EXCEPT !.report = NoResults(Len(list))], list, 1, hs,
                   net, t)

\* The effect of a run whose loop ended in acc.
FetchedAllWithApi(acc, list, net) ==
    /\ cache' = acc.cache
    /\ staleCache' = acc.staleCache
    /\ lastFix' = [op |-> "fetchTweetsForAllPoliticiansWithApi", before |-> handles,
                   list |-> list, ok |-> TRUE, report |-> acc.report,
                   exhausted |-> acc.exhausted, path |-> "returned"]

\* fetchTweetsForAllPoliticians: order is the order in which the select returns the
\* rows, net what the network does with the requests made for each politician.
FetchTweetsForAllWithApi(order, net, failSelect) ==
    /\ fixes < MaxFixes
    /\ fixes' = fixes + 1
    /\ IF failSelect
       THEN /\ lastFix' = [op |-> "fetchTweetsForAllPoliticiansWithApi",
                           before |-> handles, list |-> <<>>, ok |-> FALSE,
                           report |-> NoResults(0), exhausted |-> {},
                           path |-> "selectPoliticians"]
            /\ UNCHANGED <<cache, staleCache>>
       ELSE FetchedAllWithApi(
                LoopWithApi(SelectSeq(order, LAMBDA id : id \in WithHandleScraper(handles)),
                            handles, net, now),
                SelectSeq(order, LAMBDA id : id \in WithHandleScraper(handles)), net)
    /\ UNCHANGED <<handles, pool, now, lastFetch, lastGood, ticks, voteVars, fetchVars,
                   tweetVars, gateVars>>

\* The user requests of the batch: answered with the id of the politician's
\* account or with an authorization failure, or 429 throughout.
ApiLookups ==
    [id \in {1, 2} |->
        {a \in LookupAttempts :
            /\ a[2] = TooMany
            /\ a[1].status \in {200, 401, 429}
            /\ a[1].status = 200 => a[1].id = IF id = 1 THEN UserId ELSE OtherUserId}]

\* The requests for the posts of the batch: answered with one post or with an
\* error, or 429 throughout.
ApiTimelines ==
    {a \in TweetAttempts :
        /\ a[2] = TooMany
        /\ \/ a[1].status = 429
           \/ a[1].status = 500 /\ a[1].errors = <<>>
           \/ a[1].status = 200 /\ Len(a[1].tweetData) = 1}

NextFetchAllApi ==
    \E order \in {<<1, 2>>, <<2, 1>>}, l1 \in ApiLookups[1], l2 \in ApiLookups[2],
       t1 \in ApiTimelines, t2 \in ApiTimelines, failSelect \in BOOLEAN :
        FetchTweetsForAllWithApi(
            order, <<[lookup |-> l1, timeline |-> t1], [lookup |-> l2, timeline |-> t2]>>,
            failSelect)

SpecFetchAllApi == InitFetchAll /\ [][NextFetchAllApi]_vars

-----------------------------------------------------------------------------
(* Claims about the vote reconciler *)

VotesOfSession(vs, sessionId) == {v \in vs : v.session_id = sessionId}

VotePairsUnique ==
    \A v, w \in votes :
        (v.politician_id = w.politician_id /\ v.session_id = w.session_id) => v = w

\* What a saveVote(sessionId, name, party, vote) that returned did to the votes and
\* to the counters, by whether the pair had a row before the call.
SaveVoteEffect ==
    (last'.op = "saveVote" /\ last'.ok) =>
        LET sessionId == last'.args[1]
            vote == last'.args[4]
            pids == {p.id : p \in {q \in politicians' :
                                      Lower(q.name) = Lower(last'.args[2])}}
            before == {v \in votes : v.session_id = sessionId /\ v.politician_id \in pids}
            after == {v \in votes' : v.session_id = sessionId /\ v.politician_id \in pids}
        IN  /\ Cardinality(pids) = 1
            /\ Cardinality(after) = 1
            /\ \A v \in after : v.vote = vote
            /\ before /= {} =>
                  /\ votes' = (votes \ before) \cup {[v EXCEPT !.vote = vote] : v \in before}
                  /\ Cardinality(votes') = Cardinality(votes)
                  /\ voting_sessions' = voting_sessions
            /\ before = {} =>
                  /\ votes' = votes \cup after
                  /\ Cardinality(votes') = Cardinality(votes) + 1
                  /\ voting_sessions' =
                        {IF s.id = sessionId
                         THEN [s EXCEPT !.vote_count = s.vote_count + 1]
                         ELSE s : s \in voting_sessions}
                  /\ \E s \in voting_sessions : s.id = sessionId

\* C2: at most one vote row per (politician, session) in every reachable state; a
\* saveVote that returns for a pair that has a row overwrites the row's value, adds no
\* row and leaves every vote_count as it was; for a new pair it adds exactly one row
\* and raises the vote_count of that session by exactly 1.
C2_VoteUniqueness == [][VotePairsUnique' /\ SaveVoteEffect]_vars

\* C2 witness: a vote was overwritten in place, and one was inserted before it.
C2_Witness ==
    /\ last.op = "saveVote" /\ last.ok /\ last.path = "updated"
    /\ Cardinality(votes) = 1
    /\ \E s \in voting_sessions : s.id = last.args[1] /\ s.vote_count = 1
    /\ \E v \in votes : v.vote = last.args[4]

\* C3: in every reachable state, also after a call that failed part-way, the
\* vote_count of each session is the number of vote rows that reference the session.
C3_VoteCountConsistent ==
    \A s \in voting_sessions :
        s.vote_count = Cardinality(VotesOfSession(votes, s.id))

\* C4: when the vote_count increment of saveVote fails after the vote row was
\* inserted, the call raises and leaves neither the vote row nor a count change.
C4_UpsertAtomic ==
    [][(last'.op = "saveVote" /\ last'.path = "updateVoteCount") =>
          /\ ~last'.ok
          /\ votes' = votes
          /\ voting_sessions' = voting_sessions]_vars

-----------------------------------------------------------------------------
(* Claims about the post reconciler *)

TweetsUniquePerPolitician ==
    \A r1, r2 \in tweets :
        (r1.politician_id = r2.politician_id /\ r1.tweet_id = r2.tweet_id) => r1 = r2

RowsInserted == Cardinality(tweets') - Cardinality(tweets)

-----------------------------------------------------------------------------
(* Claims about the rate-limited fetch client *)

\* The delay the specification asks for after the 429 answered with retryCount
\* retries made: the retry-after seconds, else 5 s, 10 s, 20 s.
SpecifiedBackoff(retryAfter, retryCount) ==
    IF retryAfter /= <<>> THEN ParseInt(retryAfter) * 1000
    ELSE CASE retryCount = 0 -> 5000
           [] retryCount = 1 -> 10000
           [] OTHER -> 20000

Rejected(k) == k \in DOMAIN rl.requests /\ rl.requests[k].status = 429

BackoffRecorded(k) ==
    \E i \in DOMAIN rl.waits :
        rl.waits[i] = [why |-> "backoff",
                       ms |-> SpecifiedBackoff(rl.requests[k].retryAfter, k - 1),
                       before |-> k + 1]

\* C8: when one call is answered with three consecutive 429 responses and then a
\* success, exactly 4 requests are issued, the specified backoff is waited before
\* requests 2, 3 and 4, and the response of request 4 is returned.
C8_BackoffThenSuccess ==
    (/\ rl.pc = "done"
     /\ Rejected(1) /\ Rejected(2) /\ Rejected(3)
     /\ Len(rl.requests) >= 4 /\ rl.requests[4].status = 200)
    => /\ Len(rl.requests) = 4
       /\ rl.result = [kind |-> "response", status |-> 200, n |-> 4]
       /\ \A k \in 1..3 :
            /\ BackoffRecorded(k)
            /\ rl.requests[k + 1].at - rl.requests[k].at
                 >= SpecifiedBackoff(rl.requests[k].retryAfter, k - 1)

C8_Witness ==
    /\ rl.pc = "done"
    /\ Len(rl.requests) = 4
    /\ Rejected(1) /\ Rejected(2) /\ Rejected(3)
    /\ rl.requests[4].status = 200
    /\ rl.result.kind = "response"
    /\ \A k \in 1..3 : rl.requests[k].retryAfter = <<>>

AllRejected == Len(rl.requests) = 4 /\ \A k \in 1..4 : Rejected(k)

RetryCapHolds ==
    /\ Len(rl.requests) <= 4
    /\ rl.pc = "done" => (rl.result.kind = "rateLimitExceeded" <=> AllRejected)
    /\ rl.result.kind = "rateLimitExceeded" => rl.result.n = 4

\* A timer that was set fires and a request that was issued is answered or fails.
SpecFetchFair == SpecFetch /\ WF_vars(NextFetch)

\* C9: whatever the server answers, one call issues at most 4 requests and then
\* ends; it fails with the rate-limit-exceeded error exactly when all 4 responses
\* are 429, and never before the 4th request.
C9_RetryCap == []RetryCapHolds /\ <>(rl.pc = "done")

C9_Witness ==
    /\ rl.pc = "done"
    /\ AllRejected
    /\ rl.result.kind = "rateLimitExceeded"

\* C10 as stated: the time between a 429 response and the next request is exactly
\* the specified backoff, whatever quota headers the 429 carried.
C10_BackoffOnly ==
    \A k \in DOMAIN rl.requests :
        (Rejected(k) /\ k + 1 \in DOMAIN rl.requests) =>
            rl.requests[k + 1].at - rl.requests[k].at
              = SpecifiedBackoff(rl.requests[k].retryAfter, k - 1)

\* The further wait of a retry that finds the quota used up when the backoff ends.
QuotaWaitAfter(info, woke) ==
    IF info.remaining <= 0 /\ woke < info.reset THEN info.reset - woke + 1000 ELSE 0

\* C10: after a 429 response the client sleeps exactly the retry-after seconds
\* when that header is present and otherwise 5 s * 2^retryCount; the next request
\* is issued when that sleep ends, unless the quota recorded from the responses
\* is used up and not yet reset, in which case the client then also waits until
\* one second after the reset.
C10_BackoffThenQuotaGate ==
    \A k \in DOMAIN rl.requests :
        (Rejected(k) /\ k + 1 \in DOMAIN rl.requests) =>
            LET backoff == SpecifiedBackoff(rl.requests[k].retryAfter, k - 1)
                woke == rl.requests[k].at + backoff
            IN  /\ BackoffRecorded(k)
                /\ rl.requests[k + 1].at
                     = woke + QuotaWaitAfter(rl.requests[k].info, woke)

\* A 429 that reported the quota as used up was retried later than its backoff.
C10_Witness ==
    \E k \in DOMAIN rl.requests :
        /\ Rejected(k) /\ k + 1 \in DOMAIN rl.requests
        /\ rl.requests[k].info.remaining <= 0
        /\ rl.requests[k + 1].at - rl.requests[k].at
             > SpecifiedBackoff(rl.requests[k].retryAfter, k - 1)

-----------------------------------------------------------------------------
(* Claims about the handle fix-up *)

WithoutUrlPrefix(h) ==
    IF Includes(h, TWITTER_COM) THEN SplitPop(h, TWITTER_COM)
    ELSE IF Includes(h, X_COM) THEN SplitPop(h, X_COM) ELSE h

WithoutLeadingAt(h) == IF h /= <<>> /\ Head(h) = "@" THEN Tail(h) ELSE h

WithoutFragment(h) == SplitFirst(SplitFirst(h, SLASH), QUESTION_MARK)

\* The handle with surrounding whitespace, URL prefix, leading "@" and trailing
\* path or query fragment removed.
Cleaned == [h \in HandleValues |->
               Trim(WithoutFragment(WithoutLeadingAt(WithoutUrlPrefix(Trim(h)))))]

ReportedChanged(id) ==
    IF lastFix.op = "twitter"
    THEN id \in DOMAIN lastFix.report.details /\ lastFix.report.details[id].status = "fixed"
    ELSE id \in DOMAIN lastFix.report.details

HadHandle == {id \in DOMAIN lastFix.before :
                 lastFix.before[id] /= NullHandle /\ lastFix.before[id] /= <<>>}

\* C12: after a fix-up that returned, every politician that had a non-empty handle h
\* has the cleaned h stored, and is reported as changed exactly when the cleaned h
\* differs from h.
C12_HandlesNormalized ==
    (lastFix.op /= "none" /\ lastFix.ok) =>
        \A id \in HadHandle :
            /\ handles[id] = Cleaned[lastFix.before[id]]
            /\ ReportedChanged(id) <=> Cleaned[lastFix.before[id]] /= lastFix.before[id]

\* C20: a fix-up that raises leaves every stored handle as it was before the call.
C20_FixUpAllOrNothing ==
    (lastFix.op /= "none" /\ ~lastFix.ok) => handles = lastFix.before


-----------------------------------------------------------------------------
(* The report of fetchTweetsForAllPoliticians *)

\* The pass of the i-th politician of the list raised: its stored handle yields no
\* handle, or fetchUserTweets raised for it.
PassFailed(i) ==
    \/ ExtractTable[lastFix.before[lastFix.list[i]]] = <<>>
    \/ ~lastFix.outcomes[lastFix.list[i]].ok

RECURSIVE SumOf(_, _)
SumOf(s, i) == IF i = 0 THEN 0 ELSE s[i] + SumOf(s, i - 1)

\* C13: whatever passes of the loop raise, fetchTweetsForAllPoliticians returns a
\* report; its details hold one entry per politician read, in the order read; the
\* entry of a politician whose pass raised carries the error and zero counts; the
\* entry of every other politician, later ones included, carries the counts of its
\* posts; processedPoliticians is the number of entries without an error; and
\* totalNewTweets and totalSkippedTweets are the sums of the entries' counts.
C13_FailureIsolation ==
    (lastFix.op = "fetchTweetsForAllPoliticians" /\ lastFix.path /= "selectPoliticians") =>
        LET details == lastFix.report.details
            list == lastFix.list
        IN  /\ lastFix.ok
            /\ Len(details) = Len(list)
            /\ lastFix.report.totalPoliticians = Len(list)
            /\ \A i \in DOMAIN list :
                  /\ details[i].politicianId = list[i]
                  /\ PassFailed(i) =>
                        /\ details[i].error /= NoError
                        /\ ~lastFix.outcomes[list[i]].ok
                              => details[i].error \in {COULD_NOT_EXTRACT,
                                                       lastFix.outcomes[list[i]].message}
                        /\ details[i].newTweets = 0
                        /\ details[i].skippedTweets = 0
                        /\ details[i].totalTweets = 0
                  /\ ~PassFailed(i) =>
                        /\ details[i].error = NoError
                        /\ details[i].totalTweets = Len(lastFix.outcomes[list[i]].tweets)
                        /\ details[i].newTweets + details[i].skippedTweets
                              = details[i].totalTweets
            /\ lastFix.report.processedPoliticians
                  = Cardinality({i \in DOMAIN details : details[i].error = NoError})
            /\ lastFix.report.totalNewTweets
                  = SumOf([i \in DOMAIN details |-> details[i].newTweets], Len(details))
            /\ lastFix.report.totalSkippedTweets
                  = SumOf([i \in DOMAIN details |-> details[i].skippedTweets], Len(details))

\* The first politician's pass raised and the second one's posts were counted.
C13_Witness ==
    /\ lastFix.op = "fetchTweetsForAllPoliticians"
    /\ lastFix.ok
    /\ Len(lastFix.list) = 2
    /\ PassFailed(1)
    /\ ~PassFailed(2)
    /\ lastFix.report.details[2].totalTweets > 0
    /\ lastFix.report.processedPoliticians = 1


-----------------------------------------------------------------------------
(* The session upsert *)

SessionsOf(sessionId) == {s \in voting_sessions : s.session_id = sessionId}

\* What a call of saveVotingSession whose statements all succeed is to do.
SessionUpsertEffect(sessionId, title, date) ==
    /\ last'.ok
    /\ IF SessionsOf(sessionId) = {}
       THEN \E row \in voting_sessions' \ voting_sessions :
               /\ voting_sessions' = voting_sessions \cup {row}
               /\ row.session_id = sessionId
               /\ row.title = title
               /\ row.date = date
               /\ row.vote_count = 0
               /\ last'.ret = row.id
       ELSE /\ voting_sessions' = voting_sessions
            /\ last'.ret \in {s.id : s \in SessionsOf(sessionId)}

\* C14: saveVotingSession(externalId, title, date) inserts one session row with
\* vote_count 0 and returns its id when no session with that external id is stored;
\* when one is stored it returns that row's id and changes no field of it.
C14_SessionUpsert ==
    [][\A sessionId \in SessionIdStrings, data \in SessionData :
          SaveVotingSession(sessionId, data[1], data[2], "none")
              => SessionUpsertEffect(sessionId, data[1], data[2])]_vars

\* C15: after any sequence or interleaving of saveVotingSession calls no two session
\* rows carry the same external id, and every call that has ended returned, without
\* raising, the id of the row of its own external id.
C15_OneSessionPerExternalId ==
    /\ \A s1, s2 \in voting_sessions : s1.session_id = s2.session_id => s1 = s2
    /\ \A c \in Callers :
          savers[c].pc = "done" =>
              /\ savers[c].ok
              /\ \E s \in voting_sessions :
                    s.session_id = savers[c].sessionId /\ s.id = savers[c].ret

-----------------------------------------------------------------------------
(* The politician upsert *)

Matching(politicianName) == {p \in politicians : Lower(p.name) = Lower(politicianName)}

\* What the first half of saveVote is to do to the politicians.
PoliticianUpsertEffect(politicianName, party) ==
    IF Matching(politicianName) /= {}
    THEN /\ Cardinality(politicians') = Cardinality(politicians)
         /\ \A p \in politicians :
               IF p \in Matching(politicianName)
               THEN [p EXCEPT !.party = party] \in politicians'
               ELSE p \in politicians'
    ELSE \E row \in politicians' \ politicians :
            /\ politicians' = politicians \cup {row}
            /\ row.name = politicianName
            /\ row.party = party

\* C16: a saveVote that returns and whose name matches a stored politician
\* case-insensitively creates no politician row, leaves that politician with the
\* supplied party and changes no other field of any politician; one whose name
\* matches none inserts one politician row with the supplied name and party.
C16_PoliticianUpsert ==
    [][(calls' = calls + 1 /\ last'.op = "saveVote" /\ last'.ok)
          => PoliticianUpsertEffect(last'.args[2], last'.args[3])]_vars

\* A saveVote that returned matched a politician stored under another spelling of
\* the name, that politician carries the supplied party, and another politician is
\* stored.
C16_Witness ==
    /\ last.op = "saveVote"
    /\ last.ok
    /\ \E p \in politicians :
          /\ Lower(p.name) = Lower(last.args[2])
          /\ p.name /= last.args[2]
          /\ p.party = last.args[3]
    /\ \E p \in politicians : Lower(p.name) /= Lower(last.args[2])

-----------------------------------------------------------------------------
(* The post insert *)

\* C17: a saveTweetsToDatabase call that returns, returns the number of rows it
\* added to the store, and whether it returns or raises every post row stored
\* before the call is stored unchanged after it.
C17_SkipNotUpdate ==
    [][ingests' = ingests + 1 =>
          /\ tweets \subseteq tweets'
          /\ lastIngest'.detail.error = "none"
                => lastIngest'.detail.newTweets = RowsInserted]_vars

\* C18: a post of the incoming batch whose external id is stored already, under any
\* politician, or which occurs a second time in the batch, is skipped: an ingestion
\* none of whose statements is made to fail completes, and no two rows carry the
\* same external id afterwards.
C18_GlobalDedup ==
    [][\A politicianId \in PoliticianIds, tweetData \in TweetBatches :
          Ingest(politicianId, tweetData, "none") =>
              /\ lastIngest'.detail.error = "none"
              /\ \A r1, r2 \in tweets' : r1.tweet_id = r2.tweet_id => r1 = r2]_vars

-----------------------------------------------------------------------------
(* Reads after writes *)

\* C21: after saveTweetsToDatabase has inserted rows, a read of the recent posts,
\* for any limit, or of the post statistics returns what the store holds, not a
\* value cached before the write (the clock stands still here: no entry expires).
C21_InvalidationAfterWrite ==
    [][(lastFetch'.op \in {"getRecentTweets", "getTweetStats"} /\ ingests' = ingests)
          => lastFetch'.ret = StoreValue(lastFetch'.key)]_vars

-----------------------------------------------------------------------------
(* The stale store *)

\* C22: the stale store holds, for each key, the value most recently obtained from
\* fetchFn, across expiry and eviction of the primary entry; and once a key has been
\* invalidated explicitly, a getCachedOrFetch of it whose fetchFn fails lets the
\* error through instead of returning the value from before the invalidation.
C22_LastKnownGood ==
    [][/\ \A key \in Keys :
             lastGood'[key] /= "never" =>
                 key \in DOMAIN staleCache' /\ staleCache'[key].data = lastGood'[key]
       /\ (/\ lastFetch.op = "invalidate"
           /\ lastFetch'.op = "getCachedOrFetch"
           /\ lastFetch'.key \in {lastFetch.key[1], lastFetch.key[2]}
           /\ lastFetch'.fetched
           /\ ~lastFetch'.outcome.ok)
              => ~lastFetch'.ok /\ lastFetch'.ret = lastFetch'.outcome.error]_vars

\* The first half of C22 alone: retention across expiry and eviction.
StaleStoreRetains ==
    \A key \in Keys :
        lastGood[key] /= "never" =>
            key \in DOMAIN staleCache /\ staleCache[key].data = lastGood[key]

\* What the caller of getCachedOrFetch gets: the promise resolves with a value or
\* rejects with an error.
CallerSees(r) == <<r.ok, r.ret>>

\* C23: a call answered from the stale store can be told apart by its caller from a
\* call answered with a fresh or a cached value: no call on the same key in the same
\* state whose fetchFn resolves gives the caller what the stale answer gave.
C23_ServedStaleObservable ==
    [][(lastFetch'.op = "getCachedOrFetch" /\ lastFetch'.path = "stale") =>
          \A outcome \in FetchOutcomes :
              getCachedOrFetch(cache, staleCache, lastFetch'.key, outcome, now).path
                    \in {"fresh", "cached"}
                 => CallerSees(getCachedOrFetch(cache, staleCache, lastFetch'.key,
                                                outcome, now))
                       /= CallerSees(lastFetch')]_vars

-----------------------------------------------------------------------------
(* Claims about the user-id lookup *)

\* The handle trimmed, without URL prefix and leading "@", in lower case.
Normalized ==
    [u \in Usernames |-> Lower(WithoutLeadingAt(WithoutUrlPrefix(Trim(u))))]

\* The caller's lookup went to the network.
Fetching(c) ==
    \/ lookups[c].pc = "awaiting"
    \/ lookups[c].pc = "done" /\ lookups[c].path \in {"fresh", "stale", "throw"}

SameWindow(c1, c2) ==
    /\ lookups[c1].at - lookups[c2].at <= CACHE_TTL
    /\ lookups[c2].at - lookups[c1].at <= CACHE_TTL

\* C24: of two user-id lookups entered within one TTL window, one after the other
\* or overlapping, whose handles are equal after normalization, at most one goes
\* to the network.
C24_MemoizedLookup ==
    \A c1, c2 \in Callers :
        (/\ c1 /= c2
         /\ Fetching(c1) /\ Fetching(c2)
         /\ Normalized[lookups[c1].username] = Normalized[lookups[c2].username]
         /\ SameWindow(c1, c2)) => FALSE

\* The network call of a lookup failed: the request was rejected, the retries of a
\* 429 were used up, or the response was an error that names no missing user.
NetworkCallFailed(response) ==
    \/ response.status \in {0, 429}
    \/ /\ ~ResponseOk(response)
       /\ \A i \in 1..Len(response.errors) : ~IsNotFound(response.errors[i])

\* C25: a user-id lookup whose network call failed stores no cache entry for the
\* handle, so that the next lookup of the handle issues a request.
C25_OnlySuccessMemoized ==
    [][\A c \in Callers :
          (/\ lookups[c].pc = "awaiting" /\ lookups'[c].pc = "done"
           /\ NetworkCallFailed(lookups'[c].response))
          => cache' = cache]_vars

\* The response names an authorization failure, or a user that does not exist.
AuthorizationFailure(response) ==
    /\ response.status \notin {0, 429} /\ ~ResponseOk(response)
    /\ response.errors /= <<>> /\ IsUnauthorized(response.errors[1])
UserNotFound(response) ==
    /\ response.status \notin {0, 429} /\ ~ResponseOk(response)
    /\ response.errors /= <<>> /\ IsNotFound(response.errors[1])
    /\ ~IsUnauthorized(response.errors[1])

\* C26: a lookup answered with a not-found response returns null and raises
\* nothing; a lookup answered with an authorization failure, no value being kept
\* for the handle, raises the authorization error after exactly one request and
\* does not return null.
C26_AuthorizationVersusNotFound ==
    [][\A c \in Callers :
          (lookups[c].pc = "awaiting" /\ lookups'[c].pc = "done") =>
              /\ UserNotFound(lookups'[c].response) =>
                     lookups'[c].ok /\ lookups'[c].ret = Null
              /\ (/\ AuthorizationFailure(lookups'[c].response)
                  /\ lookups[c].key \notin DOMAIN staleCache) =>
                     /\ ~lookups'[c].ok
                     /\ lookups'[c].ret = AuthorizationMessage
                     /\ lookups'[c].requests = 1]_vars

-----------------------------------------------------------------------------
(* Claims about fetchUserTweets *)

\* The response is an error other than 429.
ErrorResponse(response) ==
    response.status \notin {0, 429} /\ ~(response.status \in 200..299)

\* The status of the response in digits.
StatusDigits(response) == SubSeq(StatusLine[response.status], 1, 3)

\* The message names every message of the payload, or the status when the payload
\* has no errors.
CarriesApiError(message, response) ==
    IF response.errors /= <<>>
    THEN \A i \in 1..Len(response.errors) :
             response.errors[i].message /= Null
                 => Includes(message, response.errors[i].message)
    ELSE Includes(message, StatusDigits(response))

\* C27: when the request for the posts is answered with an error other than 429 and
\* no value is kept for the key, fetchUserTweets issues exactly one request for the
\* posts and raises an error that carries the messages of the payload, or the
\* status when the payload has none.
C27_ErrorsNotRetried ==
    [][(/\ lastFetch'.op = "fetchUserTweets" /\ lastFetch'.fetched
        /\ ErrorResponse(lastFetch'.first) /\ ~lastFetch'.kept)
       => /\ lastFetch'.requests = 1
          /\ ~lastFetch'.ok
          /\ CarriesApiError(lastFetch'.ret, lastFetch'.first)]_vars

\* A call was answered 500 with two errors, no value being kept, and raised after
\* one request.
C27_Witness ==
    /\ lastFetch.op = "fetchUserTweets" /\ lastFetch.fetched /\ ~lastFetch.kept
    /\ lastFetch.first.status = 500 /\ Len(lastFetch.first.errors) = 2
    /\ ~lastFetch.ok /\ lastFetch.requests = 1 /\ lastFetch.lookupRequests = 1

-----------------------------------------------------------------------------
(* Claims about the quota bookkeeping *)

\* The number a header of decimal digits denotes.
RECURSIVE DecimalOf(_)
DecimalOf(s) == IF s = <<>> THEN 0 ELSE 10 * DecimalOf(SubSeq(s, 1, Len(s) - 1))
                                          + DigitVal(s[Len(s)])

\* The request that was answered in the step.
Answered == rl'.requests[Len(rl'.requests)]

\* C28: after every response, remaining is the value of its x-rate-limit-remaining
\* header and reset the value of its x-rate-limit-reset header in milliseconds; a
\* field whose header is absent keeps its value.
C28_QuotaBookkeeping ==
    [][(Len(rl'.requests) = Len(rl.requests) + 1 /\ Answered.status /= 0) =>
          /\ rateLimitInfo'.remaining =
                 IF Answered.remaining /= <<>> THEN DecimalOf(Answered.remaining)
                 ELSE rateLimitInfo.remaining
          /\ rateLimitInfo'.reset =
                 IF Answered.reset /= <<>> THEN DecimalOf(Answered.reset) * 1000
                 ELSE rateLimitInfo.reset]_vars

\* A 404 that carried only the reset header was answered after a 429 that set the
\* remaining quota to 5.
C28_Witness ==
    /\ Len(rl.requests) = 2
    /\ rl.requests[1].remaining = <<"5">> /\ rl.requests[1].status = 429
    /\ rl.requests[2].remaining = <<>> /\ rl.requests[2].reset = <<"1", "0", "6", "0">>
    /\ rl.requests[2].status = 404
    /\ rateLimitInfo.remaining = 5 /\ rateLimitInfo.reset = 1060000

-----------------------------------------------------------------------------
(* Claims about the report of the batch run with the API client *)

-----------------------------------------------------------------------------
(* Claims about concurrent saveVote calls *)

\* No saveVote call is under way.
AllReturned == \A c \in Callers : savers[c].pc \in {"idle", "done"}

\* The votes of the session stored for the politician the calls name.
VotesFor(politicianName, sessionId) ==
    {v \in votes :
        /\ v.session_id = sessionId
        /\ \E p \in politicians :
               p.id = v.politician_id /\ Lower(p.name) = Lower(politicianName)}

\* The values the calls made so far supplied for the politician.
Supplied(politicianName) ==
    {last.args[i][2] : i \in {j \in 1..Len(last.args) :
                                 Lower(last.args[j][1]) = Lower(politicianName)}}

\* C30: once every concurrent saveVote call on the session has returned, there is
\* at most one vote row for each politician and the session, each row holds a
\* value one of the calls for the politician supplied, and vote_count of the
\* session is the number of its vote rows.
C30_FinalStateUnderInterleaving ==
    AllReturned =>
        /\ \A politicianName \in Names :
              /\ Cardinality(VotesFor(politicianName, 1)) <= 1
              /\ \A v \in VotesFor(politicianName, 1) : v.vote \in Supplied(politicianName)
        /\ \A s \in voting_sessions :
              s.id = 1 => s.vote_count = Cardinality(VotesOfSession(votes, 1))

-----------------------------------------------------------------------------
\* C31: a value returned by a read of the facade (getDatabaseStats,
\* getRecentVotingSessions, getRecentTweets, getPoliticianData) was computed at most one
\* ttl (5 minutes) before the call, whatever reads and delays came before.
FacadeOps ==
    {"getDatabaseStats", "getRecentVotingSessions", "getRecentTweets", "getPoliticianData"}

C31_BoundedLifetime ==
    (lastFetch.op \in FacadeOps /\ lastFetch.ok)
        => now - lastFetch.ret.timestamp <= FacadeTtl

-----------------------------------------------------------------------------
(* The stored handles after a fix-up *)

\* A bare username: no leading "@", no "/" or "?", no twitter.com/ or x.com/ prefix,
\* no surrounding whitespace.
Bare(h) ==
    /\ ~StartsWith(h, AT_SIGN)
    /\ ~Includes(h, SLASH)
    /\ ~Includes(h, QUESTION_MARK)
    /\ ~Includes(h, TWITTER_COM)
    /\ ~Includes(h, X_COM)
    /\ h = Trim(h)

\* C32: after a fix-up that returned, every politician's stored handle that is not
\* empty is a bare username, whatever handles were stored before.
C32_BareHandles ==
    (lastFix.op \in {"twitter", "scraper"} /\ lastFix.ok) =>
        \A id \in DOMAIN handles :
            (handles[id] /= NullHandle /\ handles[id] /= <<>>) => Bare(handles[id])

\* The rows whose stored handle the last fix-up changed.
RowsChanged == {id \in DOMAIN handles : handles[id] /= lastFix.before[id]}

\* The rows the last fix-up read.
RowsRead ==
    IF lastFix.op = "twitter" THEN WithHandle(lastFix.before)
    ELSE WithHandleScraper(lastFix.before)

\* The detail entries of the report that are reported as fixed.
DetailsFixed == {id \in DOMAIN lastFix.report.details :
                    lastFix.report.details[id].status = "fixed"}

\* C33: in the report of a fix-up that returned, fixed is the number of rows whose
\* stored handle the call changed and the number of detail entries reported as fixed,
\* each of these entries carries the original and the fixed handle of its row, and
\* total is fixed plus the number of rows read and left unchanged.
C33_ReportAccounting ==
    (lastFix.op \in {"twitter", "scraper"} /\ lastFix.ok) =>
        /\ lastFix.report.fixed = Cardinality(RowsChanged)
        /\ lastFix.report.fixed = Cardinality(DetailsFixed)
        /\ \A id \in DetailsFixed :
              /\ lastFix.report.details[id].original = lastFix.before[id]
              /\ lastFix.report.details[id].fixed = handles[id]
        /\ lastFix.report.total =
              lastFix.report.fixed + Cardinality(RowsRead \ RowsChanged)

\* C39: a fix-up that follows a fix-up that returned, with no write in between, changes
\* no stored handle and reports fixed = 0.
C39_FixUpIdempotent ==
    [][(/\ lastFix.op \in {"twitter", "scraper"} /\ lastFix.ok
        /\ lastFix'.op = lastFix.op /\ lastFix'.ok /\ fixes' = fixes + 1)
          => (handles' = handles /\ lastFix'.report.fixed = 0)]_vars

-----------------------------------------------------------------------------
(* The invalidation functions of src/db/utils.ts *)

\* The cache without the entries of the listed keys.
WithoutKeys(c, keys) ==
    SelectSeq(c, LAMBDA e : \A i \in DOMAIN keys : e.key /= keys[i])

\* invalidateCache removes the listed keys and nothing else; an argument that is no
\* array changes nothing.
InvalidateRemovesListed ==
    [][lastFetch'.op = "invalidateCache"
          => cache' = IF lastFetch'.key.isArray
                      THEN WithoutKeys(cache, lastFetch'.key.keys) ELSE cache]_vars

\* clearCache removes every entry.
ClearRemovesAll == [][lastFetch'.op = "clearCache" => cache' = <<>>]_vars

\* getCacheStats never reports more than maxSize entries.
SizeWithinMax == getCacheStats(cache, now).size <= getCacheStats(cache, now).maxSize

\* getCacheStats reports as many keys as its size says.
SizeCountsKeys == getCacheStats(cache, now).size = Len(getCacheStats(cache, now).keys)

\* C34: invalidateCache(keys) removes exactly the listed keys and leaves every other
\* entry as it is (a missing key or an argument that is no array changes nothing),
\* clearCache() removes all entries, and in every state the size getCacheStats reports
\* is the number of keys it reports and at most maxSize.
C34_InvalidationApi ==
    /\ InvalidateRemovesListed
    /\ ClearRemovesAll
    /\ [](SizeCountsKeys /\ SizeWithinMax)

-----------------------------------------------------------------------------
\* C35: once every concurrent saveVote call has returned, each politician the calls
\* named, in whatever case, has exactly one row, and every vote stored for the name
\* references that row.
C35_OnePoliticianPerName ==
    AllReturned =>
        \A politicianName \in Names :
            Supplied(politicianName) /= {} =>
                \E p \in politicians :
                    /\ Matching(politicianName) = {p}
                    /\ \A v \in VotesFor(politicianName, 1) : v.politician_id = p.id

-----------------------------------------------------------------------------
\* C36: a read of the recent posts or of the post statistics that is answered from
\* the cache returns what the store holds, also when an earlier read queried the
\* store before a write committed and cached its result after the write's
\* invalidation (the clock stands still: no entry expires).
C36_NoStaleRepopulation ==
    [][(/\ lastFetch'.op \in {"getRecentTweets", "getTweetStats"}
        /\ lastFetch'.path = "cached"
        /\ lookups' = lookups /\ ingests' = ingests)
          => lastFetch'.ret = StoreValue(lastFetch'.key)]_vars

-----------------------------------------------------------------------------
(* The connection pools *)

\* C37: every client a call checks out is released exactly once on every path, so
\* whenever no call is in progress no client of either pool is checked out.
C37_NoConnectionLeak ==
    /\ pool = NoneCheckedOut
    /\ last.op /= "none" => Held(last.path, 1) = 0

\* The positions of an event in the record of a call.
At(log, event) == {i \in DOMAIN log : log[i] = event}

\* The statement of an executeTransaction call that raised inside the try block.
RaisedInTry(log) ==
    {s \in {"BEGIN", "callback", "COMMIT"} : At(log, s \o " raises") /= {}}

\* C38: in executeTransaction, BEGIN is issued before the callback runs; COMMIT is
\* issued exactly when the callback returned; the result is returned only after COMMIT
\* succeeded; and when BEGIN, the callback or COMMIT raises, ROLLBACK is issued and the
\* error that was raised is the one the caller gets.
C38_TransactionProtocol ==
    last.op = "executeTransaction" =>
        LET log == last.path
        IN  /\ \A i \in At(log, "callback") \cup At(log, "callback raises") :
                  \E j \in At(log, "BEGIN") : j < i
            /\ (At(log, "COMMIT") \cup At(log, "COMMIT raises") /= {})
                  <=> At(log, "callback") /= {}
            /\ last.ok => At(log, "COMMIT") /= {}
            /\ \A s \in RaisedInTry(log) :
                  /\ At(log, "ROLLBACK") \cup At(log, "ROLLBACK raises") /= {}
                  /\ ~last.ok
                  /\ last.ret = s

-----------------------------------------------------------------------------
\* C40: every key the primary cache holds is in the stale store with the identical
\* item, across getCachedOrFetch calls, ttl expiry, LRU eviction and invalidation.
C40_StaleCoversPrimary ==
    \A i \in DOMAIN cache :
        /\ cache[i].key \in DOMAIN staleCache
        /\ staleCache[cache[i].key] = cache[i].value

\* C40 witness: the primary cache holds an item fetched after the clock advanced,
\* next to one that had been served from the cache, while a third key of the stale
\* store is gone from the primary cache.
C40_Witness ==
    /\ Len(cache) >= 2
    /\ \E i \in DOMAIN cache : cache[i].value.timestamp > Epoch
    /\ \E key \in DOMAIN staleCache : CacheIndex(cache, key) = {}
    /\ lastFetch.op = "getCachedOrFetch" /\ lastFetch.path = "cached"

====
